---- MODULE Spec2Model ----
(***************************************************************************)
(* A model of the MDict dictionary engine of mdx-server: the container     *)
(* reader (readmdict.py), the sidecar index builder and lookup             *)
(* (mdict_query.py), and the definition post-processor (mdx_util.py).      *)
(*                                                                         *)
(* Several state machines share the module, one per specification:         *)
(*   SpecGen   - parsing one container, generating its index rows,         *)
(*               reading records back sequentially and by random access;   *)
(*   SpecBuild - the life of the .mdx.db sidecar across opens of an        *)
(*               IndexBuilder, with a concurrent reader of the sidecar;    *)
(*   SpecLink  - word lookups and their post-processing;                   *)
(*   SpecText  - the normalisation of the combined content;                *)
(*   SpecServe - the server: loading the dictionaries, building the        *)
(*               resource index, and dispatching concurrent requests.      *)
(*   SpecKeys  - the enumeration of the keys of a sidecar index.             *)
(* Each specification pins the variables of the other machines.            *)
(***************************************************************************)
EXTENDS Integers, Sequences, FiniteSets, TLC

VARIABLES
    \* ---- container machine (SpecGen) ----
    gpc,          \* position of the reader: "new", "brutal", "keys", "failed", "indexed", "index_failed"
    kblocks,      \* the key blocks of the file, as stored
    key_list,     \* MDict._key_list: sequence of <<record_start, key_text>>
    open_error,   \* the exception MDict.__init__ ended with, or "none"
    blocks,       \* the record blocks of the file, as stored
    check,        \* IndexBuilder._check, passed as check_block
    rows,         \* index_dict_list returned by get_index (what the build persists)
    gen_error,    \* the exception get_index ended with, or "none"
    yielded,      \* rows _generate_index_info yielded before it ended
    scan,         \* what items() yielded: sequence of [key_text, record]
    scan_error,   \* the exception items() ended with, "none", or "notrun"
    lk,           \* the random-access lookups: one [built, lzo] per row, or <<>>
    unread,       \* the 1 KiB slices _read_keys_brutal has not read yet: TRUE for a slice that holds the magic
    \* ---- sidecar machine (SpecBuild) ----
    bpc,          \* position of the IndexBuilder: "closed", "load", "make", "parse", "create", "fill", "ready", "failed"
    force_rebuild,\* the force_rebuild argument of the constructor
    mdx_ok,       \* MDX(self._mdx_file) and get_index succeed on the container
    header_lines, \* the lines of the StyleSheet attribute of the header, or NoAttr
    mdx_db,       \* what the file system holds at the path self._mdx_db
    opens,        \* IndexBuilder constructions so far
    before,       \* the sidecar as it was when the constructor started
    examined,     \* the sidecar _load_or_create_indexes examined
    did,          \* what the constructor decided: "none", "built", "rebuilt", "loaded", "forced"
    b_version,    \* IndexBuilder._version
    b_stylesheet, \* IndexBuilder._stylesheet
    seen,         \* what the last reader of the sidecar path read
    fill_ok,      \* the INSERTs and the META rows of _make_mdx_index succeed
    mdd_file,     \* IndexBuilder._mdd_file is set: the .mdd file exists
    mdd_ok,       \* what _make_mdd_index does: "ok", "parse_fails" (MDD or get_index raises), "insert_fails" (executemany raises)
    mdd_db,       \* what the file system holds at the path self._mdd_db
    unclosed,     \* sqlite3 connections the constructor opened that nothing has closed yet
    \* ---- lookup machine (SpecLink) ----
    dict,         \* the records of the dictionary: headword -> record text or NoEntry
    lpc,          \* "idle", or the operation that produced result
    word,         \* the word of the last request
    result,       \* what the last operation returned
    \* ---- normalisation machine (SpecText) ----
    tpc,          \* "idle", or "combined" once the content was combined
    t_content,    \* the list of texts handed to _combine_content_with_resources
    page,         \* the text _combine_content_with_resources returned
    renderings,   \* calls of _combine_content_with_resources so far
    dir_reads,    \* times the overlay directory was listed and its html files read
    \* ---- server machine (SpecServe) ----
    spc,             \* "new", "indexing", "serving", or "failed"
    dict_configs,    \* ServerConfig.dictionaries in order: sequence of [id, route, status]
    max_word_length, \* ServerConfig.max_word_length
    max_threads,     \* ServerConfig.max_threads, handed to ThreadedWSGIServer
    store,           \* per dictionary id, what its container, its directory and its sidecar hold
    builders,        \* MultiDictManager.builders: the ids of the loaded dictionaries, in insertion order
    resource_index,  \* MDXServer._resource_index: normalized path -> dictionary id
    indexed,         \* builders whose keys _build_resource_index has gone through
    threads,         \* per request thread, the resource request it is in the middle of
    served,          \* requests accepted so far
    response,        \* the response of the last request that completed
    \* ---- key enumeration machine (SpecKeys) ----
    kpc,          \* "idle", or the operation that produced keys
    index_keys,   \* the key_text column of MDX_INDEX in the sidecar asked, in row order
    has_mdd,      \* IndexBuilder._mdd_db is set
    db_ok,        \* sqlite3 reads the sidecar without raising
    query,        \* the query argument
    keys          \* the list returned

gvars == <<gpc, kblocks, key_list, open_error, blocks, check, rows, gen_error,
           yielded, scan, scan_error, lk, unread>>

bvars == <<bpc, force_rebuild, mdx_ok, header_lines, mdx_db, opens, before,
           examined, did, b_version, b_stylesheet, seen, fill_ok, mdd_file,
           mdd_ok, mdd_db, unclosed>>

\* the container files of the sidecar machine, which no action changes
bfiles == <<mdx_ok, header_lines, fill_ok, mdd_file, mdd_ok>>

lvars == <<dict, lpc, word, result>>

tvars == <<tpc, t_content, page, renderings, dir_reads>>

svars == <<spc, dict_configs, max_word_length, max_threads, store, builders,
           resource_index, indexed, threads, served, response>>

kvars == <<kpc, index_keys, has_mdd, db_ok, query, keys>>

vars == <<gvars, bvars, lvars, tvars, svars, kvars>>

\* what the actions of one machine leave alone
notgen == <<bvars, lvars, tvars, svars, kvars>>
notbuild == <<gvars, lvars, tvars, svars, kvars>>
notlink == <<gvars, bvars, tvars, svars, kvars>>
nottext == <<gvars, bvars, lvars, svars, kvars>>
notserve == <<gvars, bvars, lvars, tvars, kvars>>
notkeys == <<gvars, bvars, lvars, tvars, svars>>

----------------------------------------------------------------------------
(* Bounds of the model *)

MaxKeys == 2         \* entries in the key list
MaxOff == 2          \* largest record offset a key entry carries
MaxKeyBlocks == 2    \* key blocks in the file
MaxBlocks == 2       \* record blocks in the file
MaxLen == 2          \* bytes in one decompressed record block
MaxOpens == 2        \* constructions of an IndexBuilder on one dictionary
MaxWords == 3        \* headwords of the dictionary
MaxSlices == 2       \* 1 KiB slices of a file after its key block info

----------------------------------------------------------------------------
(* Python and library primitives *)

Min(a, b) == IF a < b THEN a ELSE b

\* a slice bound as Python clamps it for a sequence of length n
PyBound(k, n) == IF k < 0 THEN (IF k + n < 0 THEN 0 ELSE k + n)
                 ELSE (IF k > n THEN n ELSE k)

\* s[a:b] with Python's semantics for negative and out-of-range bounds
PySlice(s, a, b) ==
    LET lo == PyBound(a, Len(s))
        hi == PyBound(b, Len(s))
    IN IF lo < hi THEN SubSeq(s, lo + 1, hi) ELSE <<>>

RECURSIVE AdlerAB(_, _, _, _)
AdlerAB(s, k, a, b) ==
    IF k > Len(s) THEN b * 65536 + a
    ELSE LET a2 == (a + s[k]) % 65521
         IN AdlerAB(s, k + 1, a2, (b + a2) % 65521)

\* zlib.adler32(data) & 0xFFFFFFFF
Adler32(s) == AdlerAB(s, 1, 1, 0)

\* The zlib stream of a payload: a framed copy (one length byte, then the
\* payload), so that a stream is never its own payload and differs in size.
Deflate(s) == <<Len(s)>> \o s

ZlibOk(z) == Len(z) >= 1 /\ z[1] = Len(z) - 1

\* zlib.decompress(z) for a well-formed stream
Inflate(z) == Tail(z)

----------------------------------------------------------------------------
(* The stored form of blocks *)

\* compression tags: the first byte of the 4-byte little-endian tag field
TagStored == 0
TagLZO == 1
TagZlib == 2
TagUnknown == 3
Tags == {TagStored, TagLZO, TagZlib, TagUnknown}

\* a stored block: 4 bytes tag, 4 bytes adler32, then the body
CompressedSize(blk) == 8 + Len(blk.body)

\* bytes of one key entry: the record offset field, the key text, a NUL
RECURSIVE SerKeys(_)
SerKeys(es) == IF es = <<>> THEN <<>>
               ELSE <<es[1][1]>> \o es[1][2] \o <<0>> \o SerKeys(Tail(es))

MkBlock(tag, payload, dsize, ok) ==
    [tag |-> tag,
     body |-> IF tag = TagZlib THEN Deflate(payload) ELSE payload,
     dsize |-> dsize,
     adler |-> IF ok THEN Adler32(payload) ELSE Adler32(payload) + 1]

----------------------------------------------------------------------------
(* MDict._split_key_block and MDict._decode_key_block *)

RECURSIVE FindNul(_, _)
FindNul(kb, i) == IF i > Len(kb) THEN 0
                  ELSE IF kb[i] = 0 THEN i ELSE FindNul(kb, i + 1)

RECURSIVE SplitKeyBlock(_, _)
SplitKeyBlock(kb, key_start_index) ==
    IF key_start_index > Len(kb) THEN <<>>
    ELSE LET key_id == kb[key_start_index]
             key_end_index == FindNul(kb, key_start_index + 1)
             key_text == SubSeq(kb, key_start_index + 1, key_end_index - 1)
         IN <<<<key_id, key_text>>>> \o SplitKeyBlock(kb, key_end_index + 1)

Unbound == [bound |-> FALSE, val |-> <<>>]
Bound(v) == [bound |-> TRUE, val |-> v]

\* one iteration of the for loop; key_block is the local that survives
\* from the previous iteration
RECURSIVE DecodeKeyBlockFrom(_, _, _, _)
DecodeKeyBlockFrom(kbs, j, key_block, acc) ==
    IF j > Len(kbs) THEN [error |-> "none", key_list |-> acc]
    ELSE
    LET blk == kbs[j]
        kb == IF blk.tag = TagStored THEN Bound(blk.body)
              ELSE IF blk.tag = TagZlib THEN Bound(Inflate(blk.body))
              ELSE key_block
    IN IF blk.tag = TagLZO THEN [error |-> "RuntimeError", key_list |-> <<>>]
       ELSE IF blk.tag = TagZlib /\ ~ZlibOk(blk.body)
            THEN [error |-> "zlib.error", key_list |-> <<>>]
       ELSE IF ~kb.bound THEN [error |-> "UnboundLocalError", key_list |-> <<>>]
       ELSE IF blk.adler # Adler32(kb.val)
            THEN [error |-> "AssertionError", key_list |-> <<>>]
       ELSE DecodeKeyBlockFrom(kbs, j + 1, kb, acc \o SplitKeyBlock(kb.val, 1))

DecodeKeyBlock(kbs) == DecodeKeyBlockFrom(kbs, 1, Unbound, <<>>)

----------------------------------------------------------------------------
(* MDict._generate_index_info and its callers MDX.get_index, MDD.get_index *)

\* width of a size field for GeneratedByEngineVersion >= 2.0
NumberWidth == 8

RECURSIVE SumCompressed(_, _)
SumCompressed(bs, n) == IF n = 0 THEN 0
                        ELSE CompressedSize(bs[n]) + SumCompressed(bs, n - 1)

\* f.tell() before record block j is read, counted from _record_block_offset:
\* four size fields, one pair of sizes per block, then the blocks before j
FilePos(bs, j) == 4 * NumberWidth + Len(bs) * 2 * NumberWidth
                  + SumCompressed(bs, j - 1)

NoType == -1    \* the local _type before its first assignment

IndexDict(kl, i, pos, blk, type, offset, record_end) ==
    [key_text |-> kl[i][2],
     file_pos |-> pos,
     compressed_size |-> CompressedSize(blk),
     decompressed_size |-> blk.dsize,
     record_block_type |-> type,
     record_start |-> kl[i][1],
     record_end |-> record_end,
     offset |-> offset]

\* the break taken on the record offset alone, the block's offset forgotten
ReachedBlockEndNoOffset(record_start, offset, decompressed_size) ==
    record_start >= decompressed_size

\* "reach the end of current record block": the break of the while loop
ReachedBlockEnd(record_start, offset, decompressed_size) ==
    record_start - offset >= decompressed_size

\* the last record ended at the block's size, the block's offset forgotten
RecordEndNoOffset(kl, i, offset, decompressed_size) ==
    IF i < Len(kl) THEN kl[i + 1][1] ELSE decompressed_size

\* "record end index"
RecordEnd(kl, i, offset, decompressed_size) ==
    IF i < Len(kl) THEN kl[i + 1][1] ELSE decompressed_size + offset

\* offset += decompressed_size, at the end of one iteration of the for loop
NextOffset(offset, decompressed_size) == offset + decompressed_size

\* the LZO branch missing
IsLZOBlockNever(record_block_type) == FALSE

\* the branch that raises RuntimeError for an LZO record block
IsLZOBlock(record_block_type) == record_block_type = TagLZO

\* the while loop that splits one record block among the keys from i on
RECURSIVE SplitRecordBlock(_, _, _, _, _, _, _)
SplitRecordBlock(kl, i, pos, blk, type, offset, acc) ==
    IF i > Len(kl) THEN [error |-> "none", i |-> i, rows |-> acc]
    ELSE IF type = NoType
         THEN [error |-> "UnboundLocalError", i |-> i, rows |-> acc]
    ELSE IF ReachedBlockEnd(kl[i][1], offset, blk.dsize)
         THEN [error |-> "none", i |-> i, rows |-> acc]
    ELSE LET record_end == RecordEnd(kl, i, offset, blk.dsize)
         IN SplitRecordBlock(kl, i + 1, pos, blk, type, offset,
                Append(acc, IndexDict(kl, i, pos, blk, type, offset, record_end)))

\* the for loop over the record blocks; _type and record_block are the
\* locals that survive from the previous iteration
RECURSIVE GenerateFrom(_, _, _, _, _, _, _, _, _)
GenerateFrom(kl, bs, chk, j, i, offset, type, record_block, acc) ==
    IF j > Len(bs) THEN [error |-> "none", rows |-> acc]
    ELSE
    LET blk == bs[j]
        type2 == IF blk.tag = TagStored THEN 0
                 ELSE IF blk.tag = TagZlib THEN 2
                 ELSE type
        rb2 == IF ~chk THEN record_block
               ELSE IF blk.tag = TagStored THEN Bound(blk.body)
               ELSE IF blk.tag = TagZlib THEN Bound(Inflate(blk.body))
               ELSE record_block
    IN IF IsLZOBlock(blk.tag) THEN [error |-> "RuntimeError", rows |-> acc]
       ELSE IF chk /\ blk.tag = TagZlib /\ ~ZlibOk(blk.body)
            THEN [error |-> "zlib.error", rows |-> acc]
       ELSE IF chk /\ ~rb2.bound
            THEN [error |-> "UnboundLocalError", rows |-> acc]
       ELSE IF chk /\ (blk.adler # Adler32(rb2.val) \/ Len(rb2.val) # blk.dsize)
            THEN [error |-> "AssertionError", rows |-> acc]
       ELSE LET r == SplitRecordBlock(kl, i, FilePos(bs, j), blk, type2, offset, acc)
            IN IF r.error # "none" THEN [error |-> r.error, rows |-> r.rows]
               ELSE GenerateFrom(kl, bs, chk, j + 1, r.i,
                                 NextOffset(offset, blk.dsize), type2, rb2, r.rows)

GenerateIndexInfo(kl, bs, chk) ==
    GenerateFrom(kl, bs, chk, 1, 1, 0, NoType, Unbound, <<>>)

----------------------------------------------------------------------------
(* MDict._process_record_blocks and MDict._decode_records_common *)

RECURSIVE SplitRecords(_, _, _, _, _)
SplitRecords(kl, i, record_block, offset, acc) ==
    IF i > Len(kl) THEN [i |-> i, out |-> acc]
    ELSE IF kl[i][1] - offset >= Len(record_block) THEN [i |-> i, out |-> acc]
    ELSE LET record_end == IF i < Len(kl) THEN kl[i + 1][1]
                           ELSE Len(record_block) + offset
             record == PySlice(record_block, kl[i][1] - offset, record_end - offset)
         IN SplitRecords(kl, i + 1, record_block, offset,
                Append(acc, [key_text |-> kl[i][2], record |-> record]))

RECURSIVE DecodeRecordsFrom(_, _, _, _, _, _)
DecodeRecordsFrom(kl, bs, j, i, offset, acc) ==
    IF j > Len(bs) THEN [error |-> "none", out |-> acc]
    ELSE
    LET blk == bs[j]
    IN IF blk.tag = TagLZO THEN [error |-> "RuntimeError", out |-> acc]
       ELSE IF blk.tag = TagZlib /\ ~ZlibOk(blk.body)
            THEN [error |-> "zlib.error", out |-> acc]
       ELSE IF blk.tag \notin {TagStored, TagZlib}
            THEN [error |-> "ValueError", out |-> acc]
       ELSE LET record_block == IF blk.tag = TagStored THEN blk.body
                                ELSE Inflate(blk.body)
                r == SplitRecords(kl, i, record_block, offset, acc)
            IN DecodeRecordsFrom(kl, bs, j + 1, r.i, offset + Len(record_block), r.out)

DecodeRecordsCommon(kl, bs) == DecodeRecordsFrom(kl, bs, 1, 1, 0, <<>>)

----------------------------------------------------------------------------
(* IndexBuilder._decompress_record_block *)

\* file_handle.seek(file_pos); file_handle.read(compressed_size)[8:]
ReadBody(bs, index) ==
    LET j == CHOOSE k \in 1..Len(bs) : FilePos(bs, k) = index.file_pos
    IN bs[j].body

\* the record sliced by its stream offsets, the block's offset not subtracted
DecompressRecordBlockNoOffset(bs, index) ==
    LET body == ReadBody(bs, index)
        t == index.record_block_type
    IN IF t = 1 THEN [error |-> "RuntimeError", record |-> <<>>]
       ELSE IF t \notin {0, 2} THEN [error |-> "ValueError", record |-> <<>>]
       ELSE IF t = 2 /\ ~ZlibOk(body) THEN [error |-> "zlib.error", record |-> <<>>]
       ELSE LET record_block == IF t = 0 THEN body ELSE Inflate(body)
            IN [error |-> "none",
                record |-> PySlice(record_block, index.record_start, index.record_end)]

DecompressRecordBlock(bs, index) ==
    LET body == ReadBody(bs, index)
        t == index.record_block_type
    IN IF t = 1 THEN [error |-> "RuntimeError", record |-> <<>>]
       ELSE IF t \notin {0, 2} THEN [error |-> "ValueError", record |-> <<>>]
       ELSE IF t = 2 /\ ~ZlibOk(body) THEN [error |-> "zlib.error", record |-> <<>>]
       ELSE LET record_block == IF t = 0 THEN body ELSE Inflate(body)
            IN [error |-> "none",
                record |-> PySlice(record_block,
                                   index.record_start - index.offset,
                                   index.record_end - index.offset)]

----------------------------------------------------------------------------
(* The files the container machine is run on *)

\* key texts are one byte long and number the entries, so that every entry
\* of a key list is recognisable in the rows built from it
RECURSIVE KeyListsOfLen(_)
KeyListsOfLen(n) ==
    IF n = 0 THEN {<<>>}
    ELSE {Append(kl, <<s, <<n>>>>) : kl \in KeyListsOfLen(n - 1), s \in 0..MaxOff}

KeyLists == UNION {KeyListsOfLen(n) : n \in 0..MaxKeys}

\* the key list cut into n key blocks: one entry in each block but the last,
\* which takes the rest
Cut(kl, n) ==
    [j \in 1..n |-> IF j < n THEN SubSeq(kl, j, Min(j, Len(kl)))
                    ELSE SubSeq(kl, n, Len(kl))]

\* the key blocks of a file: tagged by f, every checksum right but that of
\* block bad (none when bad = 0)
KeyFile(kl, n, f, bad) ==
    [j \in 1..n |-> MkBlock(f[j], SerKeys(Cut(kl, n)[j]),
                            Len(SerKeys(Cut(kl, n)[j])), j # bad)]

KeyFiles ==
    {<<>>} \cup
    {KeyFile(x[1], x[2], x[3], x[4]) :
        x \in UNION {UNION {{kl} \X {n} \X [1..n -> Tags] \X (0..n) :
                            n \in 1..MaxKeyBlocks} : kl \in KeyLists}}

\* the decompressed payload of record block j: bytes found nowhere else
Payload(j, len) == [k \in 1..len |-> 10 * j + k]

\* n record blocks of len bytes each, tagged by f; the catalog declares the
\* real decompressed size of every block but block bad (none when bad = 0),
\* which it declares as len + delta
RecordFile(n, len, f, bad, delta) ==
    [j \in 1..n |-> MkBlock(f[j], Payload(j, len),
                            IF j = bad THEN len + delta ELSE len, TRUE)]

RecordFilesOfLen(n) ==
    {RecordFile(n, len, f, bad[1], bad[2]) :
        len \in 1..MaxLen, f \in [1..n -> Tags],
        bad \in {<<0, 0>>} \cup ((1..n) \X {-1, 1})}

RecordFiles == UNION {RecordFilesOfLen(n) : n \in 0..MaxBlocks}


----------------------------------------------------------------------------
(* The header's stylesheet.  Text is a sequence of one-character strings;  *)
(* a dict is a function; a dict key carries its Python type.               *)

Bytes(s) == [type |-> "bytes", text |-> s]
Str(s) == [type |-> "str", text |-> s]

NoAttr == <<"NoAttr">>

\* {}
EmptyStyle == <<>>

\* the StyleSheet attributes the model draws headers from: none, an empty
\* one, and three lines: style number 1, style_begin "<", style_end ">"
HeaderStyles == {NoAttr, <<>>, << <<"1">>, <<"<">>, <<">">> >>}

\* MDict._parse_header: re.findall over the bytes of the header, so every
\* key of tagdict is a bytes object
ParseHeader(lines) ==
    LET attrs == IF lines = NoAttr
                 THEN {"Encoding", "GeneratedByEngineVersion"}
                 ELSE {"Encoding", "GeneratedByEngineVersion", "StyleSheet"}
    IN [k \in {Bytes(a) : a \in attrs} |->
           IF k.text = "StyleSheet" THEN lines ELSE <<>>]

\* the loop of _read_header over lines[i], lines[i + 1], lines[i + 2]
StyleOfLines(lines) ==
    [n \in {lines[i] : i \in {j \in 1..Len(lines) : j % 3 = 1}} |->
        LET i == CHOOSE j \in 1..Len(lines) : j % 3 = 1 /\ lines[j] = n
        IN <<lines[i + 1], lines[i + 2]>>]

\* MDict._read_header: self._stylesheet = {}; if header_tag.get("StyleSheet"): ...
\* The key asked for is a str.
HeaderStyleSheet(header_tag) ==
    IF Str("StyleSheet") \in DOMAIN header_tag /\ header_tag[Str("StyleSheet")] # <<>>
    THEN StyleOfLines(header_tag[Str("StyleSheet")])
    ELSE EmptyStyle

\* json.dumps of a stylesheet and json.loads of the stored text
JsonDumps(m) == [row |-> TRUE, json |-> m]
JsonLoads(t) == t.json

\* MDX.get_index: meta["stylesheet"] = json.dumps(self._stylesheet)
MetaStylesheet(lines) == JsonDumps(HeaderStyleSheet(ParseHeader(lines)))

----------------------------------------------------------------------------
(* The sidecar file *)

\* the schema version IndexBuilder writes into META
version == "1.1"

NoRow == "NoRow"
NoStyleRow == [row |-> FALSE, json |-> <<>>]

\* nothing at the path
Missing ==
    [exists |-> FALSE, index |-> "none", built_by |-> 0, meta |-> FALSE,
     version |-> NoRow, stylesheet |-> NoStyleRow]

\* a file that holds no table (an empty file, or not a database)
NoTables == [Missing EXCEPT !.exists = TRUE]

\* a database that holds the table MDX_INDEX with no row, and no META
EmptyIndex(n) == [NoTables EXCEPT !.index = "empty", !.built_by = n]

\* a database that holds the rows of build n and a META table with the rows
\* v (version, or NoRow) and s (stylesheet)
CompleteIndex(n, v, s) ==
    [exists |-> TRUE, index |-> "rows", built_by |-> n, meta |-> TRUE,
     version |-> v, stylesheet |-> s]

Complete(db) == db.exists /\ db.index = "rows" /\ db.meta

\* the stylesheets a sidecar may hold
StoredStyles == {JsonDumps(EmptyStyle), JsonDumps(StyleOfLines(<< <<"1">>, <<"<">>, <<">">> >>))}

\* what may lie at the sidecar path before the first open: nothing, a
\* complete index written by this builder, by a builder of schema 1.0 or by
\* one that wrote no version row, a file left by a build that stopped after
\* CREATE TABLE MDX_INDEX, or a file that is not a database
Sidecars ==
    {Missing, NoTables, EmptyIndex(0)}
        \cup {CompleteIndex(0, v, s) : v \in {NoRow, "1.0", version}, s \in StoredStyles}

\* the reader has not read the path yet
NotRead == [Missing EXCEPT !.index = "NotRead"]

\* the sidecar machine at rest
BuildOff ==
    /\ bpc = "closed"
    /\ force_rebuild = FALSE
    /\ mdx_ok = TRUE
    /\ header_lines = NoAttr
    /\ mdx_db = Missing
    /\ opens = 0
    /\ before = Missing
    /\ examined = Missing
    /\ did = "none"
    /\ b_version = ""
    /\ b_stylesheet = EmptyStyle
    /\ seen = NotRead
    /\ fill_ok = TRUE
    /\ mdd_file = FALSE
    /\ mdd_ok = "ok"
    /\ mdd_db = Missing
    /\ unclosed = 0

NoEntry == <<"NoEntry">>

\* the lookup machine at rest
LinkOff ==
    /\ dict = <<>>
    /\ lpc = "idle"
    /\ word = <<>>
    /\ result = [status |-> 0, error |-> "none", items |-> <<>>, processed |-> <<>>]

NoResponse ==
    [status |-> 0, handler |-> "none", path |-> <<>>, route |-> <<>>,
     arg |-> <<>>, dict |-> <<"none">>, lookup |-> "none", body |-> <<>>]

\* ServerConfig.max_threads when the configuration does not set it
DefaultMaxThreads == 20

\* the server machine at rest
ServeOff ==
    /\ spc = "off"
    /\ dict_configs = <<>>
    /\ max_word_length = 100
    /\ max_threads = DefaultMaxThreads
    /\ store = <<>>
    /\ builders = <<>>
    /\ resource_index = <<>>
    /\ indexed = 0
    /\ threads = <<>>
    /\ served = 0
    /\ response = NoResponse

\* the key enumeration machine at rest
KeysOff ==
    /\ kpc = "off"
    /\ index_keys = <<>>
    /\ has_mdd = FALSE
    /\ db_ok = TRUE
    /\ query = <<>>
    /\ keys = <<>>

\* the normalisation machine at rest
TextOff ==
    /\ tpc = "idle"
    /\ t_content = <<>>
    /\ page = <<>>
    /\ renderings = 0
    /\ dir_reads = 0

----------------------------------------------------------------------------
(* The container machine *)

GenInit ==
    /\ gpc = "new"
    /\ kblocks \in KeyFiles
    /\ key_list = <<>>
    /\ open_error = "none"
    /\ blocks = <<>>
    /\ check = FALSE
    /\ rows = <<>>
    /\ gen_error = "none"
    /\ yielded = <<>>
    /\ scan = <<>>
    /\ scan_error = "notrun"
    /\ lk = <<>>
    /\ unread = <<>>
    /\ BuildOff
    /\ LinkOff
    /\ TextOff
    /\ ServeOff
    /\ KeysOff

\* the except clause narrowed to the failure of an assert
AfterReadKeysAssertOnly(error) ==
    IF error = "none" THEN "keys"
    ELSE IF error = "AssertionError" THEN "brutal"
    ELSE "failed"

\* MDict.__init__: try _read_keys, except Exception: _read_keys_brutal
AfterReadKeys(error) == IF error = "none" THEN "keys" ELSE "brutal"

\* MDict.__init__: self._key_list = self._read_keys(), any exception caught
ReadKeys ==
    /\ gpc = "new"
    /\ LET r == DecodeKeyBlock(kblocks)
       IN /\ gpc' = AfterReadKeys(r.error)
          /\ open_error' = r.error
          /\ IF r.error = "none"
             THEN /\ key_list' = r.key_list
                  /\ kblocks' = <<>>
             ELSE UNCHANGED <<key_list, kblocks>>
    /\ UNCHANGED <<blocks, check, rows, gen_error, yielded, scan, scan_error, lk,
                   unread>>
    /\ UNCHANGED notgen

\* what is left of a file after the key block info: at most MaxSlices slices
\* of 1 KiB, each with or without the magic 02 00 00 00
Slices == UNION {[1..n -> BOOLEAN] : n \in 0..MaxSlices}

\* MDict.__init__: self._key_list = self._read_keys_brutal(), up to the
\* loop that scans for the magic 02 00 00 00.  The scan stops at the first
\* key block when that block is a zlib block, and the key blocks are decoded
\* again from there; when it is not, the loop reads on through the rest of
\* the file.
ReadKeysBrutal ==
    /\ gpc = "brutal"
    /\ IF kblocks[1].tag = TagZlib
       THEN LET r == DecodeKeyBlock(kblocks)
            IN /\ gpc' = IF r.error = "none" THEN "keys" ELSE "failed"
               /\ open_error' = r.error
               /\ key_list' = r.key_list
               /\ UNCHANGED unread
       ELSE /\ gpc' = "scanning"
            /\ unread' \in Slices
            /\ UNCHANGED <<open_error, key_list>>
    /\ UNCHANGED <<kblocks, blocks, check, rows, gen_error, yielded, scan,
                   scan_error, lk>>
    /\ UNCHANGED notgen

\* _read_keys_brutal: one turn of "while True": t = f.read(1024) and
\* t.find(key_block_type).  A slice with the magic ends the loop, and the
\* key blocks are decoded from the wrong place; a slice without it is added
\* to key_block_info; at the end of the file f.read returns b"", find
\* returns -1 and the turn changes nothing
ScanSlice ==
    /\ gpc = "scanning"
    /\ IF unread = <<>>
       THEN UNCHANGED <<gpc, open_error, unread>>
       ELSE IF Head(unread)
       THEN /\ gpc' = "failed"
            /\ open_error' = "AssertionError"
            /\ unread' = Tail(unread)
       ELSE /\ unread' = Tail(unread)
            /\ UNCHANGED <<gpc, open_error>>
    /\ UNCHANGED <<kblocks, key_list, blocks, check, rows, gen_error, yielded,
                   scan, scan_error, lk>>
    /\ UNCHANGED notgen

\* MDX.get_index / MDD.get_index on the record blocks of the file
GetIndex ==
    /\ gpc = "keys"
    /\ \E bs \in RecordFiles, chk \in BOOLEAN :
        LET r == GenerateIndexInfo(key_list, bs, chk)
        IN /\ blocks' = bs
           /\ check' = chk
           /\ yielded' = r.rows
           /\ gen_error' = r.error
           /\ rows' = IF r.error = "none" THEN r.rows ELSE <<>>
           /\ gpc' = IF r.error = "none" THEN "indexed" ELSE "index_failed"
    /\ UNCHANGED <<kblocks, key_list, open_error, scan, scan_error, lk, unread>>
    /\ UNCHANGED notgen

\* MDX.items() / MDD.items() consumed to its end or to its exception
Items ==
    /\ gpc \in {"indexed", "index_failed"}
    /\ scan_error = "notrun"
    /\ LET r == DecodeRecordsCommon(key_list, blocks)
       IN /\ scan' = r.out
          /\ scan_error' = r.error
    /\ UNCHANGED <<gpc, kblocks, key_list, open_error, blocks, check, rows,
                   gen_error, yielded, lk, unread>>
    /\ UNCHANGED notgen

\* IndexBuilder.get_mdd_by_index through every row of the sidecar: through
\* the row as get_index built it (built), and through the row an earlier
\* builder with LZO support left in a sidecar that was loaded without a
\* rebuild, with record_block_type 1 (lzo)
Lookup ==
    /\ gpc = "indexed"
    /\ scan_error # "notrun"
    /\ lk = <<>>
    /\ rows # <<>>
    /\ lk' = [i \in 1..Len(rows) |->
                [built |-> DecompressRecordBlock(blocks, rows[i]),
                 lzo |-> DecompressRecordBlock(blocks,
                            [rows[i] EXCEPT !.record_block_type = 1])]]
    /\ UNCHANGED <<gpc, kblocks, key_list, open_error, blocks, check, rows,
                   gen_error, yielded, scan, scan_error, unread>>
    /\ UNCHANGED notgen

GenNext == ReadKeys \/ ReadKeysBrutal \/ ScanSlice \/ GetIndex \/ Items \/ Lookup

SpecGen == GenInit /\ [][GenNext]_vars

----------------------------------------------------------------------------
(* Properties of the container machine *)

RowInRange(r) ==
    /\ r.offset <= r.record_start
    /\ r.record_start < r.record_end
    /\ r.record_end <= r.offset + r.decompressed_size

RECURSIVE SumDecl(_, _)
SumDecl(bs, n) == IF n = 0 THEN 0 ELSE bs[n].dsize + SumDecl(bs, n - 1)

StrictlyIncreasing(kl) == \A i \in 1..(Len(kl) - 1) : kl[i][1] < kl[i + 1][1]

\* no record lies across the end of a record block, by the declared sizes
NoStraddle(kl, bs) ==
    \A i \in 1..(Len(kl) - 1), j \in 1..Len(bs) :
        ~(kl[i][1] < SumDecl(bs, j) /\ SumDecl(bs, j) < kl[i + 1][1])

GenDone == gpc \in {"indexed", "index_failed"}

\* C3 as claimed: every index row _generate_index_info produces, for any key list and
\* any record-block catalog, has offset <= record_start < record_end <=
\* offset + decompressed_size.
C3_AnyInput ==
    GenDone => \A k \in 1..Len(yielded) : RowInRange(yielded[k])

\* C3 amended: when the record offsets of the key list strictly increase and no
\* record lies across a record-block boundary, every index row produced has
\* offset <= record_start < record_end <= offset + decompressed_size.
C3_RowsInRange ==
    (GenDone /\ StrictlyIncreasing(key_list) /\ NoStraddle(key_list, blocks))
        => \A k \in 1..Len(yielded) : RowInRange(yielded[k])

C3_Witness ==
    /\ gpc = "indexed"
    /\ StrictlyIncreasing(key_list) /\ NoStraddle(key_list, blocks)
    /\ Len(rows) = 2
    /\ rows[1].offset = 0
    /\ rows[2].offset > 0

\* the length a record block really has once decompressed
ActualSize(blk) == IF blk.tag = TagZlib THEN Len(Inflate(blk.body)) ELSE Len(blk.body)

\* the catalog declares the real decompressed size of every stored or zlib block
SizesExact(bs) ==
    \A j \in 1..Len(bs) : bs[j].tag \in {TagStored, TagZlib} => bs[j].dsize = ActualSize(bs[j])

\* C4 as claimed: for every key of the key list, the bytes the random-access lookup
\* through the index returns equal the bytes the sequential scan yields for it.
C4_AnyCatalog ==
    \A i \in 1..Len(lk) :
        /\ lk[i].built.error = "none"
        /\ i <= Len(scan)
        /\ lk[i].built.record = scan[i].record

\* C4 amended: when every record block's declared decompressed size is its real
\* decompressed length, then for every key the sequential scan yields, the
\* random-access lookup through the index returns the same bytes, and a scan that
\* ends without error yields every key that has an index row.
C4_LookupEqualsScan ==
    (lk # <<>> /\ SizesExact(blocks)) =>
        /\ \A i \in 1..Len(lk) :
              i <= Len(scan) =>
                  /\ lk[i].built.error = "none"
                  /\ lk[i].built.record = scan[i].record
                  /\ rows[i].key_text = scan[i].key_text
        /\ scan_error = "none" => Len(scan) = Len(lk)

C4_Witness ==
    /\ SizesExact(blocks)
    /\ Len(lk) = 2 /\ Len(scan) = 2
    /\ rows[2].offset > 0
    /\ rows[2].record_block_type = 2
    /\ lk[2].built.record # <<>>
    /\ lk[1].built.record # <<>>

\* every record offset of the key list lies inside the record stream the
\* catalog declares
OffsetsInStream(kl, bs) == \A i \in 1..Len(kl) : kl[i][1] < SumDecl(bs, Len(bs))

KeysOf(rs) == [k \in 1..Len(rs) |-> rs[k].key_text]
KeysOfList(kl) == [k \in 1..Len(kl) |-> kl[k][2]]

\* C5 as claimed: a build yields exactly one index row per key-list entry, in
\* key-list order, whatever the record-block sizes are.
C5_AnySizes ==
    gpc = "indexed" => KeysOf(rows) = KeysOfList(key_list)

\* C5 amended: a build that succeeds yields exactly one index row per key-list
\* entry, in key-list order, when every record offset of the key list is smaller
\* than the total decompressed size the record-block catalog declares.
C5_OneRowPerKey ==
    (gpc = "indexed" /\ OffsetsInStream(key_list, blocks))
        => KeysOf(rows) = KeysOfList(key_list)

C5_Witness ==
    /\ gpc = "indexed" /\ OffsetsInStream(key_list, blocks)
    /\ Len(key_list) = 2 /\ Len(rows) = 2
    /\ rows[1].file_pos # rows[2].file_pos

HasTag(bs, t) == \E j \in 1..Len(bs) : bs[j].tag = t

\* C6: a block tagged LZO is rejected: opening a file with an LZO key block never
\* yields a key list, a build over an LZO record block fails and persists no
\* row, no row a build persists has record_block_type 1, and random access
\* through a row of type 1 fails.
C6_LZORejected ==
    /\ [][(gpc = "new" /\ HasTag(kblocks, TagLZO)) => gpc' = "brutal"]_vars
    /\ [][(gpc = "brutal" /\ HasTag(kblocks, TagLZO)) => gpc' # "keys"]_vars
    /\ [](GenDone /\ HasTag(blocks, TagLZO) => gpc = "index_failed" /\ rows = <<>>)
    /\ [](\A k \in 1..Len(rows) : rows[k].record_block_type # 1)
    /\ [](\A i \in 1..Len(lk) : lk[i].lzo.error = "RuntimeError")

C6_Witness ==
    /\ gpc = "index_failed"
    /\ Len(blocks) = 2 /\ blocks[2].tag = TagLZO
    /\ gen_error = "RuntimeError"
    /\ Len(yielded) > 0
    /\ rows = <<>>

\* the record block a row points into
BlockOfRow(bs, r) == bs[CHOOSE j \in 1..Len(bs) : FilePos(bs, j) = r.file_pos]

\* C7 as claimed: a record block with an unknown compression tag makes the build
\* fail with an error, whatever its position and with block-check on or off, and
\* no index row is produced for the keys of such a block.
C7_UnknownTagRejected ==
    GenDone =>
        /\ HasTag(blocks, TagUnknown) => gen_error # "none"
        /\ \A k \in 1..Len(yielded) :
              BlockOfRow(blocks, yielded[k]).tag \in {TagStored, TagZlib}

\* the strict parse of the key catalog fails
StrictFails == DecodeKeyBlock(kblocks).error # "none"

\* C25: when the strict parse of the key catalog fails, with any error, the
\* brutal-force recovery is attempted, and it is attempted once: it starts
\* from the strict parse only and never starts again; when the strict parse
\* succeeds the key list is there without recovery; when the recovery fails
\* too the container fails to open and no key list is produced
C25_RecoveryOnce ==
    /\ [][gpc = "new" /\ StrictFails => gpc' = "brutal"]_vars
    /\ [][gpc = "new" /\ ~StrictFails => gpc' = "keys"]_vars
    /\ [][gpc' = "brutal" => gpc = "new"]_vars
    /\ [][gpc = "brutal" => gpc' \in {"keys", "failed", "scanning"}]_vars
    /\ [][gpc' = "failed" => gpc \in {"brutal", "scanning"}]_vars
    /\ [](gpc = "failed" => key_list = <<>> /\ open_error # "none")

\* the strict parse failed on a checksum, the recovery found the first key
\* block, failed on the checksum too, and the container did not open
C25_Witness ==
    /\ gpc = "failed"
    /\ kblocks # <<>>
    /\ kblocks[1].tag = TagZlib
    /\ open_error = "AssertionError"
    /\ key_list = <<>>

\* one more turn of the scan loop that stays in the loop
ScansOn == ScanSlice /\ gpc' = "scanning"

\* C27: the brutal-force scan terminates for every file: once the slices of
\* the file are read to its end, the loop does not take another turn
C27_ScanStopsAtEndOfFile ==
    gpc = "scanning" /\ unread = <<>> => ~ENABLED ScansOn

----------------------------------------------------------------------------
(* The sidecar machine: IndexBuilder.__init__ on one dictionary, step by   *)
(* step, and a reader of the sidecar path in another thread or process     *)

\* the container machine at rest
GenOff ==
    /\ gpc = "off" /\ kblocks = <<>> /\ key_list = <<>> /\ open_error = "none"
    /\ blocks = <<>> /\ check = FALSE /\ rows = <<>> /\ gen_error = "none"
    /\ yielded = <<>> /\ scan = <<>> /\ scan_error = "notrun" /\ lk = <<>>
    /\ unread = <<>>

\* the index of a resource container, written by build n: the table
\* MDX_INDEX with its rows, and no META table
MddIndex(n) == [EmptyIndex(n) EXCEPT !.index = "rows"]

BuildInit ==
    /\ bpc = "closed"
    /\ force_rebuild = FALSE
    /\ mdx_ok \in BOOLEAN
    /\ fill_ok \in (IF mdx_ok THEN BOOLEAN ELSE {TRUE})
    /\ header_lines \in HeaderStyles
    /\ mdx_db \in Sidecars
    /\ \/ mdd_file = FALSE /\ mdd_ok = "ok" /\ mdd_db = Missing
       \/ /\ mdd_file = TRUE
          /\ mdd_ok \in {"ok", "parse_fails", "insert_fails"}
          /\ mdd_db \in {Missing, MddIndex(0)}
    /\ unclosed = 0
    /\ opens = 0
    /\ before = mdx_db
    /\ examined = Missing
    /\ did = "none"
    /\ b_version = ""
    /\ b_stylesheet = EmptyStyle
    /\ seen = NotRead
    /\ GenOff
    /\ LinkOff
    /\ TextOff
    /\ ServeOff
    /\ KeysOff

\* IndexBuilder._load_meta_from_db: [ok, version, stylesheet]; a SELECT on a
\* file without the META table raises sqlite3.Error, which is caught
LoadMetaFromDb(db, self_version, self_stylesheet) ==
    IF ~db.meta
    THEN [ok |-> FALSE, version |-> self_version, stylesheet |-> self_stylesheet]
    ELSE IF db.version = NoRow
    THEN [ok |-> FALSE, version |-> self_version, stylesheet |-> self_stylesheet]
    ELSE [ok |-> TRUE, version |-> db.version,
          stylesheet |-> IF ~db.stylesheet.row THEN self_stylesheet
                         ELSE JsonLoads(db.stylesheet)]

\* IndexBuilder.__init__: _initialize_attributes, then _force_rebuild_indexes
\* or _load_or_create_indexes
Open ==
    /\ bpc \in {"closed", "ready", "failed"}
    /\ opens < MaxOpens
    /\ \E force \in BOOLEAN :
        /\ force_rebuild' = force
        /\ bpc' = IF force THEN "make" ELSE "load"
        /\ did' = IF force THEN "forced" ELSE "none"
    /\ opens' = opens + 1
    /\ before' = mdx_db
    /\ examined' = Missing
    /\ b_version' = ""
    /\ b_stylesheet' = EmptyStyle
    /\ UNCHANGED <<bfiles, mdx_db, seen, mdd_db, unclosed>>
    /\ UNCHANGED notbuild

\* a connection left by "with sqlite3.connect(...) as conn": the with
\* statement commits or rolls back and does not close; the connection is
\* closed when the object is reclaimed, at the return or later
LeftByWith(n) == {n, n + 1}

\* IndexBuilder._load_or_create_indexes, up to the call of _make_mdx_index
LoadOrCreateIndexes ==
    /\ bpc = "load"
    /\ examined' = mdx_db
    /\ IF mdx_db.exists
       THEN LET r == LoadMetaFromDb(mdx_db, b_version, b_stylesheet)
            IN /\ b_version' = r.version
               /\ b_stylesheet' = r.stylesheet
               /\ did' = IF r.ok THEN "loaded" ELSE "rebuilt"
               /\ bpc' = IF r.ok THEN "mdd" ELSE "make"
               /\ unclosed' \in LeftByWith(unclosed)
       ELSE /\ did' = "built"
            /\ bpc' = "make"
            /\ UNCHANGED <<b_version, b_stylesheet, unclosed>>
    /\ UNCHANGED <<bfiles, force_rebuild, mdx_db, opens, before, seen, mdd_db>>
    /\ UNCHANGED notbuild

\* _make_mdx_index: if os.path.exists(db_name): os.remove(db_name)
MakeRemove ==
    /\ bpc = "make"
    /\ mdx_db' = IF mdx_db.exists THEN Missing ELSE mdx_db
    /\ bpc' = "parse"
    /\ UNCHANGED <<bfiles, force_rebuild, opens, before, examined, did, b_version,
                   b_stylesheet, seen, mdd_db, unclosed>>
    /\ UNCHANGED notbuild

\* _make_mdx_index: mdx = MDX(self._mdx_file); mdx.get_index(...).  An
\* exception leaves the constructor.
MakeParse ==
    /\ bpc = "parse"
    /\ bpc' = IF mdx_ok THEN "create" ELSE "failed"
    /\ UNCHANGED <<bfiles, force_rebuild, mdx_db, opens, before, examined, did,
                   b_version, b_stylesheet, seen, mdd_db, unclosed>>
    /\ UNCHANGED notbuild

\* _make_mdx_index: sqlite3.connect(db_name); CREATE TABLE MDX_INDEX, which
\* sqlite3 runs outside a transaction
MakeCreate ==
    /\ bpc = "create"
    /\ mdx_db' = EmptyIndex(opens)
    /\ bpc' = "fill"
    /\ UNCHANGED <<bfiles, force_rebuild, opens, before, examined, did, b_version,
                   b_stylesheet, seen, mdd_db, unclosed>>
    /\ UNCHANGED notbuild

\* _make_mdx_index: the INSERTs, CREATE TABLE META, its rows, CREATE INDEX,
\* all in one transaction, conn.commit(), conn.close() and the class
\* members; an exception of one of the statements leaves the constructor
\* with the transaction not committed and the connection not closed
MakeCommit ==
    /\ bpc = "fill"
    /\ IF fill_ok
       THEN /\ mdx_db' = CompleteIndex(opens, version, MetaStylesheet(header_lines))
            /\ b_stylesheet' = JsonLoads(MetaStylesheet(header_lines))
            /\ bpc' = "mdd"
            /\ UNCHANGED unclosed
       ELSE /\ bpc' = "failed"
            /\ unclosed' = unclosed + 1
            /\ UNCHANGED <<mdx_db, b_stylesheet>>
    /\ UNCHANGED <<bfiles, force_rebuild, opens, before, examined, did, b_version,
                   seen, mdd_db>>
    /\ UNCHANGED notbuild

\* the constructor calls _make_mdd_index: after _make_mdx_index in
\* _force_rebuild_indexes and in _rebuild_mdx_index, and at the end of
\* _load_or_create_indexes when no file is at the path self._mdd_db
MakesMddIndex(db) == mdd_file /\ (did \in {"forced", "rebuilt"} \/ ~db.exists)

\* the resource index after the mdx index: _make_mdd_index when it is
\* called.  MDD(...) and get_index run before sqlite3.connect; CREATE TABLE
\* is on disk when executemany raises, and conn.close() is not reached
MakeMddIndex ==
    /\ bpc = "mdd"
    /\ IF ~MakesMddIndex(mdd_db)
       THEN /\ bpc' = "ready"
            /\ UNCHANGED <<mdd_db, unclosed>>
       ELSE CASE mdd_ok = "ok" ->
                    /\ mdd_db' = MddIndex(opens)
                    /\ bpc' = "ready"
                    /\ UNCHANGED unclosed
              [] mdd_ok = "parse_fails" ->
                    /\ mdd_db' = Missing
                    /\ bpc' = "failed"
                    /\ UNCHANGED unclosed
              [] OTHER ->
                    /\ mdd_db' = EmptyIndex(opens)
                    /\ bpc' = "failed"
                    /\ unclosed' = unclosed + 1
    /\ UNCHANGED <<bfiles, force_rebuild, mdx_db, opens, before, examined, did,
                   b_version, b_stylesheet, seen>>
    /\ UNCHANGED notbuild

\* the interpreter reclaims a connection object nothing refers to any more,
\* which closes it
ReclaimConnection ==
    /\ unclosed > 0
    /\ unclosed' = unclosed - 1
    /\ UNCHANGED <<bfiles, bpc, force_rebuild, mdx_db, opens, before, examined,
                   did, b_version, b_stylesheet, seen, mdd_db>>
    /\ UNCHANGED notbuild

\* another thread or process opens the sidecar path and reads it
ReadSidecar ==
    /\ seen # mdx_db
    /\ seen' = mdx_db
    /\ UNCHANGED <<bfiles, bpc, force_rebuild, mdx_db, opens, before, examined,
                   did, b_version, b_stylesheet, mdd_db, unclosed>>
    /\ UNCHANGED notbuild

BuildNext ==
    \/ Open \/ LoadOrCreateIndexes \/ MakeRemove \/ MakeParse \/ MakeCreate
    \/ MakeCommit \/ MakeMddIndex \/ ReclaimConnection \/ ReadSidecar

SpecBuild == BuildInit /\ [][BuildNext]_vars

\* C1 as claimed: an open without force_rebuild builds the index when the
\* sidecar is missing, rebuilds it when the sidecar is present and its version
\* row is absent or differs from the builder's schema version, and loads the
\* metadata without a rebuild when the stored version equals the current one.
C1_LoadPolicy ==
    (~force_rebuild /\ did # "none") =>
        /\ ~examined.exists => did = "built"
        /\ (examined.exists /\ examined.version # version) => did = "rebuilt"
        /\ (examined.exists /\ examined.version = version) => did = "loaded"

\* C2 as claimed: every read of the sidecar path returns the complete index
\* that was there when the constructor started or the complete index of the
\* running build.
C2_AtomicRebuild ==
    [][seen' # seen =>
          \/ seen' = before
          \/ Complete(seen') /\ seen'.built_by = opens]_vars

\* the constructor has returned or raised
Returned == bpc \in {"ready", "failed"}

\* C24: every connection to an index store opened by a metadata load or an
\* index build is closed before the operation returns, on the success path
\* and on every error path
C24_ConnectionsClosed == Returned => unclosed = 0

\* a file a build left behind when it failed part-way: the table MDX_INDEX
\* created, its rows not committed
Leftover(db) == db.exists /\ db.index = "empty" /\ db.built_by > 0

\* C29: a failed index build is never accepted as a valid index later: an
\* open that succeeds does not leave the builder on a sidecar, of the mdx or
\* of the mdd, that a failed build left behind
C29_FailedBuildRebuilt ==
    bpc = "ready" => /\ ~Leftover(mdx_db)
                     /\ mdd_file => ~Leftover(mdd_db)

----------------------------------------------------------------------------
(* Text.  A text is a sequence of strings, one per character; NUL stands   *)
(* for the character \x00.  A bytes or str value is Bytes(t) or Str(t).    *)

NUL == "NUL"
\* BQ stands for the backtick character
BQ == "BQ"
Whitespace == {" ", "\t", "\n", "\r"}
Digits == {"0", "1", "2", "3", "4", "5", "6", "7", "8", "9"}
Letters == {"a", "b", "c", "d", "e", "g", "i", "k", "l", "n", "s", "x", "y",
            "I", "K", "L", "N"}

\* the class \w of re
IsWordChar(c) == c \in Letters \cup Digits \cup {"_"}

RECURSIVE LStrip(_, _)
LStrip(s, chars) ==
    IF s # <<>> /\ Head(s) \in chars THEN LStrip(Tail(s), chars) ELSE s

RECURSIVE RStrip(_, _)
RStrip(s, chars) ==
    IF s # <<>> /\ s[Len(s)] \in chars
    THEN RStrip(SubSeq(s, 1, Len(s) - 1), chars)
    ELSE s

\* str.strip(chars)
Strip(s, chars) == LStrip(RStrip(s, chars), chars)

StartsWith(s, p) == Len(s) >= Len(p) /\ SubSeq(s, 1, Len(p)) = p
EndsWith(s, p) == Len(s) >= Len(p) /\ SubSeq(s, Len(s) - Len(p) + 1, Len(s)) = p

\* str.replace(pat, ""), pat not empty
RECURSIVE Remove(_, _)
Remove(s, pat) ==
    IF s = <<>> THEN <<>>
    ELSE IF StartsWith(s, pat) THEN Remove(SubSeq(s, Len(pat) + 1, Len(s)), pat)
    ELSE <<Head(s)>> \o Remove(Tail(s), pat)

\* "".join(list)
RECURSIVE Join(_)
Join(list) == IF list = <<>> THEN <<>> ELSE Head(list) \o Join(Tail(list))

\* bytes.decode and str.encode on the characters of the model, which one
\* byte each encodes in every encoding a dictionary names
Decode(b) == Str(b.text)
Encode(s) == Bytes(s.text)

\* the index of the last character of the longest run of characters of the
\* class cls that starts at s[i]; i - 1 when there is none
RECURSIVE RunEnd(_, _, _)
RunEnd(s, i, cls) ==
    IF i <= Len(s) /\ s[i] \in cls THEN RunEnd(s, i + 1, cls) ELSE i - 1

LinkPrefix == <<"@", "@", "@", "L", "I", "N", "K", "=">>

\* re.compile(r"@@@LINK=([\w\s]*)").match(item): [match, group(1)]
LinkMatch(item) ==
    IF StartsWith(item, LinkPrefix)
    THEN [match |-> TRUE,
          group |-> SubSeq(item, Len(LinkPrefix) + 1,
                           RunEnd(item, Len(LinkPrefix) + 1,
                                  {c \in Letters \cup Digits \cup {"_"} \cup Whitespace :
                                      IsWordChar(c) \/ c \in Whitespace}))]
    ELSE [match |-> FALSE, group |-> <<>>]

\* the index of the closing backtick of a match of the tag pattern (backtick, digits, backtick) that starts at s[i], or 0
TagEnd(s, i) ==
    IF s[i] # BQ THEN 0
    ELSE LET d == RunEnd(s, i + 1, Digits)
         IN IF d > i /\ d + 1 <= Len(s) /\ s[d + 1] = BQ THEN d + 1 ELSE 0

\* re.split and re.findall of txt with the tag pattern: [list, tags]
RECURSIVE SplitTags(_, _, _, _, _)
SplitTags(s, i, frag, frags, tags) ==
    IF i > Len(s) THEN [list |-> Append(frags, frag), tags |-> tags]
    ELSE LET e == TagEnd(s, i)
         IN IF e > 0
            THEN SplitTags(s, e + 1, <<>>, Append(frags, frag),
                           Append(tags, SubSeq(s, i, e)))
            ELSE SplitTags(s, i + 1, Append(frag, s[i]), frags, tags)

HasTagToken(s) == \E i \in 1..Len(s) : TagEnd(s, i) > 0

\* the loop of _replace_stylesheet from the j-th tag on
RECURSIVE StyleFrom(_, _, _, _, _)
StyleFrom(stylesheet, txt_list, txt_tag, j, txt_styled) ==
    IF j > Len(txt_tag) THEN [error |-> "none", txt |-> Str(txt_styled)]
    ELSE LET n == SubSeq(txt_tag[j], 2, Len(txt_tag[j]) - 1)
             p == txt_list[j + 1]
         IN IF n \notin DOMAIN stylesheet
            THEN [error |-> "KeyError", txt |-> Str(txt_styled)]
            ELSE LET style == stylesheet[n]
                 IN StyleFrom(stylesheet, txt_list, txt_tag, j + 1,
                        IF p # <<>> /\ p[Len(p)] = "\n"
                        THEN txt_styled \o style[1] \o RStrip(p, Whitespace)
                                 \o style[2] \o <<"\r", "\n">>
                        ELSE txt_styled \o style[1] \o p \o style[2])

\* the substitution on a str
SubstituteStr(stylesheet, t) ==
    LET sp == SplitTags(t, 1, <<>>, <<>>, <<>>)
    IN StyleFrom(stylesheet, sp.list, sp.tags, 1, sp.list[1])

\* IndexBuilder._replace_stylesheet(txt): the patterns are str patterns, and
\* re refuses to apply a str pattern to a bytes object
ReplaceStylesheet(stylesheet, txt) ==
    IF txt.type = "bytes" THEN [error |-> "TypeError", txt |-> txt]
    ELSE SubstituteStr(stylesheet, txt.text)

\* get_mdx_by_index: return record.decode("utf-8"), r being what
\* _replace_stylesheet returned or raised
DecodeStyled(r) ==
    IF r.error # "none" THEN [error |-> r.error, text |-> <<>>]
    ELSE IF r.txt.type = "str" THEN [error |-> "AttributeError", text |-> <<>>]
    ELSE [error |-> "none", text |-> Decode(r.txt).text]

\* get_mdx_by_index: "Apply stylesheet if available", record being bytes
ApplyStylesheet(stylesheet, record) ==
    IF DOMAIN stylesheet # {}
    THEN DecodeStyled(ReplaceStylesheet(stylesheet, record))
    ELSE [error |-> "none", text |-> Decode(record).text]

\* IndexBuilder.get_mdx_by_index on the bytes of one record: [error, text]
GetMdxByIndex(stylesheet, raw) ==
    ApplyStylesheet(stylesheet, Encode(Str(Strip(Decode(Bytes(raw)).text, {NUL}))))

----------------------------------------------------------------------------
(* The lookup machine: an opened dictionary and one operation that looks   *)
(* a word up in it                                                         *)

WordNames == <<"a", "b", "c", "d", "e">>
Words == {<<WordNames[i]>> : i \in 1..MaxWords}

\* the records the model draws dictionaries from, as the bytes of the
\* record block: a plain text, a text with a style tag, and a redirect to
\* each headword
PlainRecord == <<"x", NUL>>
StyledRecord == <<"y", BQ, "1", BQ, "x", "\n", NUL>>
LinkRecord(w) == LinkPrefix \o w \o <<"\r", "\n", NUL>>
Records == {NoEntry, PlainRecord, StyledRecord} \cup {LinkRecord(w) : w \in Words}

\* the words requests carry
Requests == Words \cup {<<>>, <<"a", "/", "b">>}

\* SELECT * FROM MDX_INDEX WHERE key_text = ?: the records of the rows
RowsOf(d, keyword) ==
    IF keyword \in DOMAIN d /\ d[keyword] # NoEntry THEN <<d[keyword]>> ELSE <<>>

\* the loop of mdx_lookup over the rows from the k-th on, r being what
\* get_mdx_by_index returned or raised for the row before; an exception
\* leaves the loop
RECURSIVE LookupFrom(_, _, _, _, _)
LookupFrom(stylesheet, rs, k, r, acc) ==
    IF r.error # "none" THEN [error |-> r.error, out |-> <<>>]
    ELSE IF k > Len(rs) THEN [error |-> "none", out |-> Append(acc, r.text)]
    ELSE LookupFrom(stylesheet, rs, k + 1, GetMdxByIndex(stylesheet, rs[k]),
                    Append(acc, r.text))

\* IndexBuilder.mdx_lookup(keyword): [error, out]
MdxLookupOf(stylesheet, d, keyword) ==
    IF keyword = <<>> THEN [error |-> "none", out |-> <<>>]
    ELSE IF RowsOf(d, keyword) = <<>> THEN [error |-> "none", out |-> <<>>]
    ELSE LookupFrom(stylesheet, RowsOf(d, keyword), 2,
                    GetMdxByIndex(stylesheet, RowsOf(d, keyword)[1]), <<>>)

\* MultiDictManager.query_dictionary: any exception of the lookup gives []
QueryDictionary(stylesheet, d, w) ==
    LET r == MdxLookupOf(stylesheet, d, w)
    IN IF r.error = "none" THEN r.out ELSE <<>>

MaxWordLength == 100

\* MDXServer._validate_word
ValidateWord(w) ==
    /\ w # <<>>
    /\ Len(w) <= MaxWordLength
    /\ \A i \in 1..Len(w) : w[i] \notin {"/", "\\"}
    /\ \A i \in 1..(Len(w) - 1) : ~(w[i] = "." /\ w[i + 1] = ".")

\* MDXServer._handle_word_lookup: [status, items]
HandleWordLookupOf(stylesheet, d, w) ==
    IF ~ValidateWord(w)
    THEN [status |-> 500, items |-> <<Bytes(<<"<h1>Error: Invalid word</h1>">>)>>]
    ELSE LET results == QueryDictionary(stylesheet, d, w)
         IN IF results # <<>>
            THEN [status |-> 200,
                  items |-> [k \in 1..Len(results) |-> Encode(Str(results[k]))]]
            ELSE [status |-> 404,
                  items |-> <<Bytes(<<"<h1>Word '">> \o w
                                    \o <<"' not found in dictionary</h1>">>)>>]

Lower(c) ==
    CASE c = "I" -> "i" [] c = "K" -> "k" [] c = "L" -> "l" [] c = "N" -> "n"
      [] OTHER -> c

\* LemmaProcessor._simple_lemmatize
SimpleLemmatize(w0) ==
    LET low == [i \in 1..Len(w0) |-> Lower(w0[i])]
        w == Strip(low, Whitespace)
        n == Len(w)
    IN IF EndsWith(w, <<"i", "e", "s">>) /\ n > 4
       THEN SubSeq(w, 1, n - 3) \o <<"y">>
       ELSE IF EndsWith(w, <<"s">>) /\ n > 3 /\ ~EndsWith(w, <<"s", "s">>)
       THEN SubSeq(w, 1, n - 1)
       ELSE IF EndsWith(w, <<"e", "d">>) /\ n > 3 THEN SubSeq(w, 1, n - 2)
       ELSE IF EndsWith(w, <<"i", "n", "g">>) /\ n > 4 THEN SubSeq(w, 1, n - 3)
       ELSE w

\* _process_content_links: processed.extend(linked_content), or the
\* exception of the lookup
Extend(processed, linked_content) ==
    IF linked_content.error # "none"
    THEN [error |-> linked_content.error, out |-> <<>>]
    ELSE [error |-> "none", out |-> processed \o linked_content.out]

\* _process_content_links: one item, m being the match of the pattern
ProcessItem(stylesheet, d, item, m, processed) ==
    IF m.match
    THEN Extend(processed, MdxLookupOf(stylesheet, d, Strip(m.group, Whitespace)))
    ELSE [error |-> "none", out |-> Append(processed, item)]

\* MDXContentProcessor._process_content_links from the k-th item on, acc
\* being the list after the items before
RECURSIVE ProcessFrom(_, _, _, _, _)
ProcessFrom(stylesheet, d, content, k, acc) ==
    IF acc.error # "none" \/ k > Len(content) THEN acc
    ELSE ProcessFrom(stylesheet, d, content, k + 1,
                     ProcessItem(stylesheet, d, content[k], LinkMatch(content[k]),
                                 acc.out))

ProcessContentLinks(stylesheet, d, content) ==
    ProcessFrom(stylesheet, d, content, 1, [error |-> "none", out |-> <<>>])

\* the text of the html files under the resource path
InjectionHtml == <<"<script></script>">>

\* the content joined and left as it is
CombineContentAsIs(content) == Join(content) \o InjectionHtml

\* MDXContentProcessor._combine_content_with_resources
CombineContentWithResources(content) ==
    Remove(Remove(Join(content), <<"\r", "\n">>),
           <<"e", "n", "t", "r", "y", ":", "/">>) \o InjectionHtml

ErrorPage(w) == <<Bytes(<<"<h1>Error processing word: ">> \o w \o <<"</h1>">>)>>

\* get_definition_mdx: "Try lemmatized form if no results"
TryLemma(stylesheet, d, w, content) ==
    IF content.error = "none" /\ content.out = <<>> /\ SimpleLemmatize(w) # w
    THEN MdxLookupOf(stylesheet, d, SimpleLemmatize(w))
    ELSE content

\* get_definition_mdx: "Handle link references"
HandleLinks(stylesheet, d, w, content) ==
    IF content.error # "none" THEN content
    ELSE IF content.out # <<>> THEN ProcessContentLinks(stylesheet, d, content.out)
    ELSE [error |-> "none",
          out |-> << <<"<h1>No definition found for: ">> \o w \o <<"</h1>">> >>]

\* get_definition_mdx: "Combine content and inject resources", and the
\* except clause around the whole body
Combine(w, processed_content) ==
    IF processed_content.error # "none"
    THEN [items |-> ErrorPage(w), processed |-> <<>>]
    ELSE [items |-> <<Encode(Str(CombineContentWithResources(processed_content.out)))>>,
          processed |-> processed_content.out]

\* MDXContentProcessor.get_definition_mdx: [items, processed]
GetDefinitionMdxOf(stylesheet, d, w) ==
    IF w = <<>>
    THEN [items |-> <<Bytes(<<"<h1>Error: Invalid input</h1>">>)>>, processed |-> <<>>]
    ELSE Combine(w, HandleLinks(stylesheet, d, w,
                        TryLemma(stylesheet, d, w, MdxLookupOf(stylesheet, d, w))))

\* the dictionary after IndexBuilder.__init__ returned: the index was built
\* from a container whose header is any of HeaderStyles, or the metadata was
\* loaded from a sidecar that holds any of StoredStyles
LinkInit ==
    /\ GenOff
    /\ TextOff
    /\ ServeOff
    /\ KeysOff
    /\ bpc = "ready"
    /\ force_rebuild = FALSE
    /\ mdx_ok = TRUE
    /\ opens = 1
    /\ fill_ok = TRUE
    /\ mdd_file = FALSE
    /\ mdd_ok = "ok"
    /\ mdd_db = Missing
    /\ unclosed = 0
    /\ seen = NotRead
    /\ did \in {"built", "loaded"}
    /\ header_lines \in IF did = "built" THEN HeaderStyles
                        ELSE {<< <<"1">>, <<"<">>, <<">">> >>}
    /\ mdx_db \in IF did = "built"
                  THEN {CompleteIndex(1, version, MetaStylesheet(header_lines))}
                  ELSE {CompleteIndex(0, version, s) : s \in StoredStyles}
    /\ before = IF did = "built" THEN Missing ELSE mdx_db
    /\ examined = before
    /\ b_version = IF did = "built" THEN "" ELSE version
    /\ b_stylesheet = JsonLoads(mdx_db.stylesheet)
    /\ dict \in [Words -> Records]
    /\ lpc = "idle"
    /\ word = <<>>
    /\ result = [status |-> 0, error |-> "none", items |-> <<>>, processed |-> <<>>]

\* IndexBuilder.mdx_lookup(w)
MdxLookup ==
    /\ lpc = "idle"
    /\ \E w \in Requests :
        LET r == MdxLookupOf(b_stylesheet, dict, w)
        IN /\ word' = w
           /\ result' = [status |-> 0, error |-> r.error, items |-> r.out,
                         processed |-> <<>>]
    /\ lpc' = "MdxLookup"
    /\ UNCHANGED dict
    /\ UNCHANGED notlink

\* GET /w: MDXServer._handle_word_lookup(w)
HandleWordLookup ==
    /\ lpc = "idle"
    /\ \E w \in Requests :
        LET r == HandleWordLookupOf(b_stylesheet, dict, w)
        IN /\ word' = w
           /\ result' = [status |-> r.status, error |-> "none", items |-> r.items,
                         processed |-> <<>>]
    /\ lpc' = "HandleWordLookup"
    /\ UNCHANGED dict
    /\ UNCHANGED notlink

\* MDXContentProcessor.get_definition_mdx(w, builder)
GetDefinitionMdx ==
    /\ lpc = "idle"
    /\ \E w \in Requests :
        LET r == GetDefinitionMdxOf(b_stylesheet, dict, w)
        IN /\ word' = w
           /\ result' = [status |-> 0, error |-> "none", items |-> r.items,
                         processed |-> r.processed]
    /\ lpc' = "GetDefinitionMdx"
    /\ UNCHANGED dict
    /\ UNCHANGED notlink

LinkNext == MdxLookup \/ HandleWordLookup \/ GetDefinitionMdx

SpecLink == LinkInit /\ [][LinkNext]_vars

\* the text of the record of headword w, as a lookup without stylesheet reads it
TextOf(d, w) == GetMdxByIndex(EmptyStyle, d[w]).text

IsLink(d, w) == w \in DOMAIN d /\ d[w] # NoEntry /\ LinkMatch(TextOf(d, w)).match

\* the headword whose record is not a redirect that the chain of redirects
\* from headword w ends in after at most depth redirects, or NoEntry
RECURSIVE ChainEnd(_, _, _)
ChainEnd(d, w, depth) ==
    IF w \notin DOMAIN d \/ d[w] = NoEntry THEN NoEntry
    ELSE IF ~IsLink(d, w) THEN w
    ELSE IF depth = 0 THEN NoEntry
    ELSE ChainEnd(d, Strip(LinkMatch(TextOf(d, w)).group, Whitespace), depth - 1)

\* C8 as claimed: when the record of the word looked up is a redirect and the
\* chain of redirects ends in a record that is not one, the content returned is
\* what looking the final headword up returns, and holds no redirect record.
C8_LinkResolved ==
    (/\ lpc \in {"HandleWordLookup", "GetDefinitionMdx"}
     /\ IsLink(dict, word)
     /\ ChainEnd(dict, word, MaxWords) # NoEntry
     /\ MdxLookupOf(b_stylesheet, dict, ChainEnd(dict, word, MaxWords)).error = "none")
    => LET final == MdxLookupOf(b_stylesheet, dict, ChainEnd(dict, word, MaxWords)).out
       IN IF lpc = "HandleWordLookup"
          THEN /\ result.status = 200
               /\ result.items = [k \in 1..Len(final) |-> Encode(Str(final[k]))]
          ELSE result.processed = final

\* C9 as claimed: whatever the dictionary holds, link processing ends with a
\* list that holds no redirect record.
C9_NoLinkReturned ==
    lpc = "GetDefinitionMdx" =>
        \A k \in 1..Len(result.processed) : ~LinkMatch(result.processed[k]).match

\* the stylesheet of the dictionary: the one the builder holds, or else the
\* one the header of the container declares
DictStyle ==
    IF DOMAIN b_stylesheet # {} THEN b_stylesheet
    ELSE IF header_lines = NoAttr THEN EmptyStyle
    ELSE StyleOfLines(header_lines)

\* C10 as claimed: with a non-empty stylesheet, a lookup returns the record with
\* its leading fragment unchanged and every following fragment wrapped in the
\* prefix and suffix of its tag (right-stripped and ended by CRLF when it ends
\* in a newline), and no tag token remains.
C10_StylesheetApplied ==
    (/\ lpc = "MdxLookup"
     /\ word \in Words
     /\ dict[word] # NoEntry
     /\ DOMAIN DictStyle # {})
    => LET want == SubstituteStr(DictStyle, TextOf(dict, word))
       IN /\ result.error = "none"
          /\ result.items = <<want.txt.text>>
          /\ ~HasTagToken(result.items[1])

----------------------------------------------------------------------------
(* The normalisation machine: _combine_content_with_resources applied to   *)
(* the content of one definition                                             *)

MaxRenderings == 2   \* renderings of a definition
MaxPieces == 3       \* pieces the content of one definition is made of

CRLF == <<"\r", "\n">>
EntryPrefix == <<"e", "n", "t", "r", "y", ":", "/">>

\* the pieces the texts of the model are made of: line ends, the url prefix,
\* and the two halves of the url prefix
Pieces == {<<"\r">>, <<"\n">>, CRLF, EntryPrefix, <<"e", "n", "t", "r">>,
           <<"y", ":", "/">>, <<"x">>}

\* the lists of at most n pieces
RECURSIVE ContentsOfLen(_)
ContentsOfLen(n) ==
    IF n = 0 THEN {<<>>}
    ELSE {<<p>> \o c : p \in Pieces, c \in ContentsOfLen(n - 1)}

Contents == UNION {ContentsOfLen(n) : n \in 0..MaxPieces}

TextInit ==
    /\ GenOff
    /\ BuildOff
    /\ LinkOff
    /\ ServeOff
    /\ KeysOff
    /\ tpc = "idle"
    /\ t_content \in Contents
    /\ page = <<>>
    /\ renderings = 0
    /\ dir_reads = 0

\* MDXContentProcessor._combine_content_with_resources(t_content), for one
\* more rendering of a definition: _get_injection_html lists the overlay
\* directory and reads its html files in every call
CombineContent ==
    /\ renderings < MaxRenderings
    /\ page' = CombineContentWithResources(t_content)
    /\ tpc' = "combined"
    /\ renderings' = renderings + 1
    /\ dir_reads' = dir_reads + 1
    /\ UNCHANGED t_content
    /\ UNCHANGED nottext

TextNext == CombineContent

SpecText == TextInit /\ [][TextNext]_vars

\* pat occurs in s
Contains(s, pat) ==
    \E i \in 1..Len(s) : StartsWith(SubSeq(s, i, Len(s)), pat)

\* the entry body of a page: the part before the injection html
BodyOf(p) == SubSeq(p, 1, Len(p) - Len(InjectionHtml))

\* every carriage return of s is directly followed by a line feed, and every
\* line feed directly preceded by a carriage return
OnlyCRLF(s) ==
    \A i \in 1..Len(s) :
        /\ s[i] = "\r" => i < Len(s) /\ s[i + 1] = "\n"
        /\ s[i] = "\n" => i > 1 /\ s[i - 1] = "\r"

\* no occurrence of the url prefix in s directly follows one of the
\* characters e n t r y :
NoNestedPrefix(s) ==
    \A i \in 2..Len(s) :
        StartsWith(SubSeq(s, i, Len(s)), EntryPrefix)
            => s[i - 1] \notin {"e", "n", "t", "r", "y", ":"}

\* removing the pattern once, left to right, leaves no occurrence behind
Flat(c) == OnlyCRLF(Join(c)) /\ NoNestedPrefix(Remove(Join(c), CRLF))

\* C11 as stated: for every input content, the entry body of the page holds
\* no CRLF sequence and no occurrence of entry:/
C11_AnyContent ==
    tpc = "combined"
        => ~Contains(BodyOf(page), CRLF) /\ ~Contains(BodyOf(page), EntryPrefix)

\* C11: when the line ends of the content are all CRLF pairs and no entry:/
\* of it directly follows a character of entry:, the entry body of the page
\* holds no CRLF sequence and no occurrence of entry:/
C11_BodyNormalized ==
    tpc = "combined" /\ Flat(t_content)
        => ~Contains(BodyOf(page), CRLF) /\ ~Contains(BodyOf(page), EntryPrefix)

\* a content with a line end and a url prefix has been normalised
C11_Witness ==
    /\ tpc = "combined"
    /\ Flat(t_content)
    /\ Contains(Join(t_content), CRLF)
    /\ Contains(Join(t_content), EntryPrefix)
    /\ Len(BodyOf(page)) > 0

\* C26: the injection html is computed once and cached: over any number of
\* renderings the overlay directory is read at most once
C26_InjectionReadOnce == dir_reads <= 1

----------------------------------------------------------------------------
(* The server.  A path is a text whose characters are the separators / and *)
(* \, next to names that no operation of the server splits: html, x.png,   *)
(* x.txt, health, api, dicts, dictionaries.  A dictionary id and a route   *)
(* are texts too.  File names are compared as a POSIX file system does.    *)

MaxDicts == 2        \* dictionaries of the configuration
MaxRequests == 2     \* requests the server accepts, one handler thread each

\* MDXServer.CONTENT_TYPES, its keys
ContentTypes == {"html", "js", "ico", "css", "jpg", "png", "gif", "mp3", "mp4",
                 "wav", "spx", "ogg", "eot", "svg", "ttf", "woff", "woff2"}

\* the suffix of a name, without its dot
NameExt(name) ==
    CASE name = "x.png" -> "png" [] name = "x.txt" -> "txt" [] OTHER -> ""

\* file_util.get_file_extension: Path(path).suffix[1:]
GetFileExtension(path) == IF path = <<>> THEN "" ELSE NameExt(path[Len(path)])

\* str.replace(old, new), old and new one character each
Replace(s, old, new) == [i \in 1..Len(s) |-> IF s[i] = old THEN new ELSE s[i]]

\* str.split(sep)
RECURSIVE Split(_, _)
Split(s, sep) ==
    IF \E i \in 1..Len(s) : s[i] = sep
    THEN LET i == CHOOSE i \in 1..Len(s) :
                      s[i] = sep /\ \A j \in 1..(i - 1) : s[j] # sep
         IN <<SubSeq(s, 1, i - 1)>> \o Split(SubSeq(s, i + 1, Len(s)), sep)
    ELSE <<s>>

\* sep.join(parts)
RECURSIVE JoinWith(_, _)
JoinWith(parts, sep) ==
    IF parts = <<>> THEN <<>>
    ELSE IF Len(parts) = 1 THEN parts[1]
    ELSE parts[1] \o <<sep>> \o JoinWith(Tail(parts), sep)

Range(seq) == {seq[i] : i \in 1..Len(seq)}

\* list(dict.fromkeys(seq))
RECURSIVE Dedupe(_)
Dedupe(seq) ==
    IF seq = <<>> THEN <<>>
    ELSE LET front == Dedupe(SubSeq(seq, 1, Len(seq) - 1))
         IN IF seq[Len(seq)] \in Range(front) THEN front
            ELSE Append(front, seq[Len(seq)])

(* ---- the registry ---- *)

Ids == {<<"default">>, <<"d1">>, <<"d2">>}
Routes == {<<>>, <<"r">>}
NoBuilder == <<"none">>

\* DictConfig with its id: path_ok says that the path exists, opens that
\* IndexBuilder(path) returns instead of raising; the path of a disabled
\* dictionary is not read, and a path that does not exist is not opened
DictConfigs ==
    {c \in [id : Ids, route : Routes, enabled : BOOLEAN, path_ok : BOOLEAN,
            opens : BOOLEAN] :
        /\ c.enabled \/ c.path_ok
        /\ (c.enabled /\ c.path_ok) \/ c.opens}

\* the configurations of n dictionaries none of which raises when opened:
\* the ids are the keys of a dict
RECURSIVE RegistriesOfLen(_)
RegistriesOfLen(n) ==
    IF n = 0 THEN {<<>>}
    ELSE UNION {{Append(r, c) : c \in {c \in DictConfigs :
                                          /\ c.opens
                                          /\ \A i \in 1..Len(r) : r[i].id # c.id}} :
                r \in RegistriesOfLen(n - 1)}

\* the configurations with a dictionary that raises when opened: alone,
\* before another dictionary or after it
RaisingRegistries ==
    LET raising == {c \in DictConfigs : ~c.opens}
        others(a) == {c \in DictConfigs : c.id # a.id}
    IN  {<<a>> : a \in raising}
          \cup UNION {{<<a, b>> : b \in others(a)} : a \in raising}
          \cup UNION {{<<b, a>> : b \in others(a)} : a \in raising}

Registries == UNION {RegistriesOfLen(n) : n \in 1..MaxDicts} \cup RaisingRegistries

\* the loop without "if not dict_config.enabled: continue"
RECURSIVE LoadDictionariesDisabledToo(_, _)
LoadDictionariesDisabledToo(configs, k) ==
    IF k > Len(configs) THEN <<>>
    ELSE IF ~configs[k].path_ok THEN LoadDictionariesDisabledToo(configs, k + 1)
    ELSE IF ~configs[k].opens THEN LoadDictionariesDisabledToo(configs, k + 1)
    ELSE <<configs[k].id>> \o LoadDictionariesDisabledToo(configs, k + 1)

\* the loop left at the first IndexBuilder that raises
RECURSIVE LoadDictionariesUncaught(_, _)
LoadDictionariesUncaught(configs, k) ==
    IF k > Len(configs) THEN <<>>
    ELSE IF ~configs[k].enabled THEN LoadDictionariesUncaught(configs, k + 1)
    ELSE IF ~configs[k].path_ok THEN LoadDictionariesUncaught(configs, k + 1)
    ELSE IF ~configs[k].opens THEN <<>>
    ELSE <<configs[k].id>> \o LoadDictionariesUncaught(configs, k + 1)

\* MultiDictManager.load_dictionaries: the builders, in insertion order
RECURSIVE LoadDictionariesFrom(_, _)
LoadDictionariesFrom(configs, k) ==
    IF k > Len(configs) THEN <<>>
    ELSE IF ~configs[k].enabled THEN LoadDictionariesFrom(configs, k + 1)
    ELSE IF ~configs[k].path_ok THEN LoadDictionariesFrom(configs, k + 1)
    ELSE IF ~configs[k].opens THEN LoadDictionariesFrom(configs, k + 1)
    ELSE <<configs[k].id>> \o LoadDictionariesFrom(configs, k + 1)

\* MultiDictManager.get_dictionary_list
GetDictionaryList(configs, blds) ==
    [k \in 1..Len(configs) |->
        [id |-> configs[k].id, route |-> configs[k].route,
         enabled |-> configs[k].enabled,
         status |-> IF configs[k].id \in Range(blds) THEN "loaded" ELSE "error"]]

\* the first configuration from position k on with that route and a builder
RECURSIVE RouteMatchFrom(_, _, _, _)
RouteMatchFrom(configs, blds, route, k) ==
    IF k > Len(configs) THEN NoBuilder
    ELSE IF configs[k].route = route /\ configs[k].id \in Range(blds)
    THEN configs[k].id
    ELSE RouteMatchFrom(configs, blds, route, k + 1)

\* the id default given no precedence
GetDictionaryByRouteFirst(configs, blds, route) ==
    IF route = <<>>
    THEN IF blds # <<>> THEN blds[1] ELSE NoBuilder
    ELSE RouteMatchFrom(configs, blds, route, 1)

\* MultiDictManager.get_dictionary_by_route
GetDictionaryByRoute(configs, blds, route) ==
    IF route = <<>>
    THEN IF <<"default">> \in Range(blds) THEN <<"default">>
         ELSE IF blds # <<>> THEN blds[1]
         ELSE NoBuilder
    ELSE RouteMatchFrom(configs, blds, route, 1)

\* MultiDictManager.get_dictionary_by_id
GetDictionaryById(blds, dict_id) ==
    IF dict_id \in Range(blds) THEN dict_id ELSE NoBuilder

(* ---- the resources of a dictionary ---- *)

\* what one dictionary holds: the keys of its resource container (mdd), the
\* keys among them whose content is empty, the files of the file system by
\* their path from the directory of the dictionary file, and what mdx_lookup
\* does: "found", "absent", "raise"
KeyPlain == <<"x.png">>
KeyRoot == <<"\\", "x.png">>
KeyHtml == <<"\\", "html", "\\", "x.png">>
FilePlain == <<"x.png">>
FileHtml == <<"html", "/", "x.png">>
FileUnder == <<"q", "/", "x.png">>
\* a file in the parent of the directory of the dictionary file
FileOutside == <<".", ".", "/", "x.png">>

\* IndexBuilder.mdd_lookup(key): the content in a list, or the empty list
MddLookup(st, id, key) ==
    IF key \notin st[id].mdd THEN <<>>
    ELSE IF key \in st[id].empty THEN <<[src |-> "empty", dict |-> id, name |-> key]>>
    ELSE <<[src |-> "mdd", dict |-> id, name |-> key]>>

\* the test "result and result[0]" on a list of contents
HasContent(result_list) == result_list # <<>> /\ result_list[1].src # "empty"

\* MDXContentProcessor._try_filesystem_fallback
TryFilesystemFallback(st, id, path) ==
    IF LStrip(path, {"/", "\\"}) \in st[id].files
    THEN <<[src |-> "file", dict |-> id, name |-> LStrip(path, {"/", "\\"})]>>
    ELSE <<>>

\* MDXContentProcessor.get_definition_mdd
GetDefinitionMdd(st, id, path) ==
    IF path = <<>> \/ id = NoBuilder THEN <<>>
    ELSE IF HasContent(MddLookup(st, id, Replace(path, "/", "\\")))
    THEN MddLookup(st, id, Replace(path, "/", "\\"))
    ELSE TryFilesystemFallback(st, id, path)

(* ---- the resource index ---- *)

\* _build_resource_index: key.replace("\\", "/").strip("/") without a
\* leading html/
StripHtml(k) == IF StartsWith(k, <<"html", "/">>) THEN SubSeq(k, 3, Len(k)) ELSE k
NormalizedKey(key) == StripHtml(Strip(Replace(key, "\\", "/"), {"/"}))

\* the normalized keys of the dictionary whose resource has content
IndexableKeys(st, id) ==
    {NormalizedKey(key) : key \in {k \in st[id].mdd :
                                     k # <<>> /\ HasContent(GetDefinitionMdd(st, id, k))}}

\* the index with the keys of a dictionary written over what it holds
IndexDictionaryOverriding(idx, st, id) ==
    [q \in DOMAIN idx \cup IndexableKeys(st, id) |->
        IF q \in IndexableKeys(st, id) THEN id ELSE idx[q]]

\* _build_resource_index, the body of the loop for one dictionary
IndexDictionaryOf(idx, st, id) ==
    [q \in DOMAIN idx \cup IndexableKeys(st, id) |->
        IF q \in DOMAIN idx THEN idx[q] ELSE id]

\* _find_resource_in_any_dictionary: the normalized paths, without duplicates
NormalizedPaths(path_info) ==
    Dedupe(<<LStrip(path_info, {"/"}),
             LStrip(path_info, {"/", "\\"}),
             LStrip(Replace(path_info, "\\", "/"), {"/"})>>)

\* _find_resource_in_any_dictionary: "Try indexed lookup first"
RECURSIVE FindIndexed(_, _, _)
FindIndexed(idx, blds, nps) ==
    IF nps = <<>> THEN NoBuilder
    ELSE IF Head(nps) \in DOMAIN idx /\ idx[Head(nps)] \in Range(blds)
    THEN idx[Head(nps)]
    ELSE FindIndexed(idx, blds, Tail(nps))

\* os.path.join("", "html", path_info)
JoinHtml(path_info) ==
    IF StartsWith(path_info, <<"/">>) THEN path_info
    ELSE <<"html", "/">> \o path_info

\* _find_resource_in_any_dictionary: the search paths of the linear search
ScanSearchPaths(path_info) == <<path_info, path_info, JoinHtml(path_info)>>

\* some search path has content in the dictionary
FoundIn(st, id, search_paths) ==
    \E k \in 1..Len(search_paths) : HasContent(GetDefinitionMdd(st, id, search_paths[k]))

\* _find_resource_in_any_dictionary: "Fallback to linear search"
RECURSIVE ScanBuilders(_, _, _)
ScanBuilders(st, blds, search_paths) ==
    IF blds = <<>> THEN NoBuilder
    ELSE IF FoundIn(st, Head(blds), search_paths) THEN Head(blds)
    ELSE ScanBuilders(st, Tail(blds), search_paths)

\* _find_resource_in_any_dictionary: one turn of "for norm_path in
\* normalized_paths"
Cache(idx, norm_path, dict_id) ==
    [q \in DOMAIN idx \cup {norm_path} |-> IF q \in DOMAIN idx THEN idx[q] ELSE dict_id]

\* _handle_mdd_resource: the keys tried in the dictionary
ResourceSearchPaths(path_info) ==
    <<path_info, <<"\\">> \o path_info, <<"\\", "html", "\\">> \o path_info>>

\* _handle_mdd_resource: the first search path with content, as a list
RECURSIVE FirstContent(_, _, _)
FirstContent(st, id, search_paths) ==
    IF search_paths = <<>> THEN <<>>
    ELSE IF HasContent(GetDefinitionMdd(st, id, Head(search_paths)))
    THEN GetDefinitionMdd(st, id, Head(search_paths))
    ELSE FirstContent(st, id, Tail(search_paths))

(* ---- dispatch ---- *)

\* MDXServer._init_route_handlers
HealthPath == <<"/", "health">>
DictListPaths == {<<"/", "api", "/", "dicts">>, <<"/", "api", "/", "dictionaries">>}

\* _route_request: "Parse path components"
PathParts(path_info) ==
    IF Strip(path_info, {"/"}) = <<>> THEN <<>>
    ELSE Split(Strip(path_info, {"/"}), "/")

Dispatch(handler, arg, route) == [handler |-> handler, arg |-> arg, route |-> route]

\* every single component taken for a word
HandleSingleComponentAsWord(component) == Dispatch("word_lookup", component, <<>>)

\* MDXServer._handle_single_component
HandleSingleComponent(component) ==
    IF GetFileExtension(component) \in ContentTypes
    THEN Dispatch("mdd_resource", component, <<>>)
    ELSE Dispatch("word_lookup", component, <<>>)

\* no first component taken for a route
HandleMultiComponentNoRoute(configs, blds, path_parts) ==
    IF GetFileExtension(path_parts[Len(path_parts)]) \in ContentTypes
    THEN Dispatch("mdd_resource", JoinWith(path_parts, "/"), <<>>)
    ELSE Dispatch("not_found", <<>>, <<>>)

\* MDXServer._handle_multi_component
HandleMultiComponent(configs, blds, path_parts) ==
    IF GetDictionaryByRoute(configs, blds, path_parts[1]) # NoBuilder
    THEN IF GetFileExtension(path_parts[Len(path_parts)]) \in ContentTypes
         THEN Dispatch("mdd_resource", JoinWith(Tail(path_parts), "/"), path_parts[1])
         ELSE Dispatch("word_lookup", JoinWith(Tail(path_parts), "/"), path_parts[1])
    ELSE IF GetFileExtension(path_parts[Len(path_parts)]) \in ContentTypes
    THEN Dispatch("mdd_resource", JoinWith(path_parts, "/"), <<>>)
    ELSE Dispatch("not_found", <<>>, <<>>)

\* the dispatch of a path that is not one of the direct routes
RouteParts(configs, blds, path_parts) ==
    IF path_parts = <<>> THEN Dispatch("dict_list", <<>>, <<>>)
    ELSE IF Len(path_parts) = 1 THEN HandleSingleComponent(path_parts[1])
    ELSE HandleMultiComponent(configs, blds, path_parts)

\* MDXServer._route_request: the handler called, with its arguments
RouteRequest(configs, blds, path_info) ==
    IF path_info = HealthPath THEN Dispatch("health", <<>>, <<>>)
    ELSE IF path_info \in DictListPaths THEN Dispatch("dict_list", <<>>, <<>>)
    ELSE RouteParts(configs, blds, PathParts(path_info))

(* ---- the handlers ---- *)

\* a response: the status, the handler that produced it with its arguments,
\* the dictionary it used, what mdx_lookup did, and the content returned
Response(status, path_info, d, dict_id, lookup, body) ==
    [status |-> status, handler |-> d.handler, path |-> path_info,
     route |-> d.route, arg |-> d.arg, dict |-> dict_id, lookup |-> lookup,
     body |-> body]

\* MDXServer._handle_health_check
HealthResponse(blds, path_info, d) ==
    Response(IF blds # <<>> THEN 200 ELSE 503, path_info, d, NoBuilder, "none", <<>>)

\* MultiDictManager.query_dictionary: the builder asked
QueryBuilder(configs, blds, dict_id_or_route) ==
    IF GetDictionaryByRoute(configs, blds, dict_id_or_route) # NoBuilder
    THEN GetDictionaryByRoute(configs, blds, dict_id_or_route)
    ELSE GetDictionaryById(blds, dict_id_or_route)

\* MDXServer._handle_word_lookup with MultiDictManager.query_dictionary: an
\* exception of mdx_lookup is caught in query_dictionary, which returns []
WordLookupResponse(st, path_info, d, b) ==
    IF ~ValidateWord(d.arg)
    THEN Response(500, path_info, d, NoBuilder, "none", <<>>)
    ELSE IF b = NoBuilder
    THEN Response(404, path_info, d, NoBuilder, "none", <<>>)
    ELSE IF st[b].words = "found"
    THEN Response(200, path_info, d, b, "found", <<[src |-> "mdx", dict |-> b, name |-> d.arg]>>)
    ELSE Response(404, path_info, d, b, st[b].words, <<>>)

\* MDXServer._handle_mdd_resource once the builder is known
MddResourceResponse(path_info, d, b, content_list) ==
    IF b # NoBuilder /\ content_list # <<>>
    THEN Response(200, path_info, d, b, "none", content_list)
    ELSE Response(404, path_info, d, b, "none", <<>>)

ServeResource(st, path_info, d, b) ==
    MddResourceResponse(path_info, d, b, FirstContent(st, b, ResourceSearchPaths(d.arg)))

(* ---- the machine ---- *)

\* ThreadingMixIn: one thread per request
Threads == 1..MaxRequests

Idle == [pc |-> "idle", path |-> <<>>, d |-> Dispatch("none", <<>>, <<>>),
         pending |-> <<>>, found |-> NoBuilder]

LongWord == [i \in 1..(MaxWordLength + 1) |-> "w"]

\* the request paths
Paths ==
    {<<"/">>, HealthPath, <<"/", "api", "/", "dicts">>,
     <<"/", "w">>, <<"/", "w", "w">>, <<"/", ".", ".">>, <<"/">> \o LongWord,
     <<"/", "x.txt">>, <<"/", "x.png">>, <<"/", "\\", "x.png">>,
     <<"/", "r", "/", "w">>, <<"/", "r", "/", "w", "/", "w">>,
     <<"/", "r", "/", "x.png">>, <<"/", "q", "/", "w">>, <<"/", "q", "/", "x.png">>,
     <<"/", "r", "/", ".", ".", "/", "x.png">>}

DictStore(mdd, empty, files, words) ==
    [mdd |-> mdd, empty |-> empty, files |-> files, words |-> words]

\* one store per dictionary id, with the three outcomes of a word lookup
PlainStore ==
    [id \in Ids |->
        CASE id = <<"default">> -> DictStore({KeyRoot}, {}, {}, "absent")
          [] id = <<"d1">> ->
                DictStore({}, {}, {FilePlain, FileUnder, FileOutside}, "found")
          [] OTHER -> DictStore({KeyHtml}, {}, {}, "raise")]

\* the containers and directories of a dictionary with the resource x.png
ResourceStores ==
    {DictStore(m[1], m[2], f, "found") :
        m \in {<<{}, {}>>, <<{KeyRoot}, {}>>, <<{KeyHtml}, {}>>, <<{KeyPlain}, {}>>,
               <<{KeyRoot}, {KeyRoot}>>},
        f \in {{}, {FilePlain}, {FileHtml}}}

Stores ==
    {[id \in Ids |-> CASE id = <<"d1">> -> a [] id = <<"d2">> -> b
                       [] OTHER -> DictStore({}, {}, {}, "absent")] :
        a \in ResourceStores, b \in ResourceStores}

\* two dictionaries that load, the first with a route
PlainRegistry ==
    <<[id |-> <<"d1">>, route |-> <<"r">>, enabled |-> TRUE, path_ok |-> TRUE,
       opens |-> TRUE],
      [id |-> <<"d2">>, route |-> <<>>, enabled |-> TRUE, path_ok |-> TRUE,
       opens |-> TRUE]>>

\* a server about to be constructed: any configuration over one store, one
\* configuration over any store, or one configuration over one store with a
\* short max_word_length or with a pool of one thread
ServeInit ==
    /\ GenOff
    /\ BuildOff
    /\ LinkOff
    /\ TextOff
    /\ KeysOff
    /\ spc = "new"
    /\ \/ /\ dict_configs \in Registries
          /\ store = PlainStore
          /\ max_word_length = MaxWordLength
          /\ max_threads = DefaultMaxThreads
       \/ /\ dict_configs = PlainRegistry
          /\ store \in Stores
          /\ max_word_length = MaxWordLength
          /\ max_threads = DefaultMaxThreads
       \/ /\ dict_configs = PlainRegistry
          /\ store = PlainStore
          /\ \/ max_word_length = 1 /\ max_threads = DefaultMaxThreads
             \/ max_word_length = MaxWordLength /\ max_threads = 1
    /\ builders = <<>>
    /\ resource_index = <<>>
    /\ indexed = 0
    /\ threads = [t \in Threads |-> Idle]
    /\ served = 0
    /\ response = NoResponse

\* MDXServer.__init__: MultiDictManager(config), then RuntimeError when no
\* dictionary loaded
LoadDictionaries ==
    /\ spc = "new"
    /\ builders' = LoadDictionariesFrom(dict_configs, 1)
    /\ spc' = IF builders' = <<>> THEN "failed" ELSE "indexing"
    /\ UNCHANGED <<dict_configs, max_word_length, max_threads,
                   store, resource_index, indexed,
                   threads, served, response>>
    /\ UNCHANGED notserve

\* MDXServer._build_resource_index: one turn of the loop over the builders
IndexDictionary ==
    /\ spc = "indexing"
    /\ resource_index' = IndexDictionaryOf(resource_index, store, builders[indexed + 1])
    /\ indexed' = indexed + 1
    /\ spc' = IF indexed' = Len(builders) THEN "serving" ELSE "indexing"
    /\ UNCHANGED <<dict_configs, max_word_length, max_threads,
                   store, builders, threads, served,
                   response>>
    /\ UNCHANGED notserve

Respond(r) == response' = r /\ UNCHANGED threads

\* _find_resource_in_any_dictionary up to the loop that caches the paths
FindResource(t, path_info, d, hit, scanned) ==
    IF hit # NoBuilder THEN Respond(ServeResource(store, path_info, d, hit))
    ELSE IF scanned = NoBuilder THEN Respond(ServeResource(store, path_info, d, NoBuilder))
    ELSE /\ threads' = [threads EXCEPT ![t] =
                           [pc |-> "caching", path |-> path_info, d |-> d,
                            pending |-> NormalizedPaths(d.arg), found |-> scanned]]
         /\ UNCHANGED response

\* the handler _route_request calls
Handle(t, path_info, d) ==
    CASE d.handler = "health" -> Respond(HealthResponse(builders, path_info, d))
      [] d.handler = "dict_list" ->
            Respond(Response(200, path_info, d, NoBuilder, "none",
                             GetDictionaryList(dict_configs, builders)))
      [] d.handler = "not_found" ->
            Respond(Response(404, path_info, d, NoBuilder, "none", <<>>))
      [] d.handler = "word_lookup" ->
            Respond(WordLookupResponse(store, path_info, d,
                                       QueryBuilder(dict_configs, builders, d.route)))
      [] d.handler = "mdd_resource" /\ d.route # <<>> ->
            Respond(ServeResource(store, path_info, d,
                                  GetDictionaryByRoute(dict_configs, builders, d.route)))
      [] OTHER ->
            FindResource(t, path_info, d,
                         FindIndexed(resource_index, builders, NormalizedPaths(d.arg)),
                         ScanBuilders(store, builders, ScanSearchPaths(d.arg)))

\* MDXServer.wsgi_application on thread t, started for this request, up to the response or, for a
\* resource the linear search found, up to the loop that caches its paths
Request(t) ==
    /\ spc = "serving"
    /\ served < MaxRequests
    /\ t = served + 1
    /\ \E path_info \in Paths :
          Handle(t, path_info, RouteRequest(dict_configs, builders, path_info))
    /\ served' = served + 1
    /\ UNCHANGED <<spc, dict_configs, max_word_length, max_threads,
                   store, builders,
                   resource_index, indexed>>
    /\ UNCHANGED notserve

\* _find_resource_in_any_dictionary on thread t: one turn of "for norm_path
\* in normalized_paths"; after the last one the builder is returned and
\* _handle_mdd_resource reads the resource
CacheResource(t) ==
    /\ threads[t].pc = "caching"
    /\ resource_index' = Cache(resource_index, Head(threads[t].pending), threads[t].found)
    /\ IF Len(threads[t].pending) = 1
       THEN /\ response' = ServeResource(store, threads[t].path, threads[t].d,
                                         threads[t].found)
            /\ threads' = [threads EXCEPT ![t] = Idle]
       ELSE /\ threads' = [threads EXCEPT ![t].pending = Tail(@)]
            /\ UNCHANGED response
    /\ UNCHANGED <<spc, dict_configs, max_word_length, max_threads,
                   store, builders, indexed,
                   served>>
    /\ UNCHANGED notserve

ServeNext ==
    \/ LoadDictionaries
    \/ IndexDictionary
    \/ \E t \in Threads : Request(t)
    \/ \E t \in Threads : CacheResource(t)

SpecServe == ServeInit /\ [][ServeNext]_vars

----------------------------------------------------------------------------
(* Properties of the server *)

C13_ReadOnlyAfterStartup ==
    [][spc = "serving" => resource_index' = resource_index]_vars

\* the request a step accepts: its path, the handler it is dispatched to with
\* the arguments, and the dictionary chosen for it
Accepted ==
    IF threads'[served'].pc = "caching"
    THEN [path |-> threads'[served'].path, handler |-> threads'[served'].d.handler,
          route |-> threads'[served'].d.route, arg |-> threads'[served'].d.arg,
          dict |-> threads'[served'].found, lookup |-> "none"]
    ELSE [path |-> response'.path, handler |-> response'.handler,
          route |-> response'.route, arg |-> response'.arg,
          dict |-> response'.dict, lookup |-> response'.lookup]

\* the segments of a request path
Segments(path_info) == PathParts(path_info)

KnownExtension(segment) == GetFileExtension(segment) \in ContentTypes

\* the first builder, in insertion order, among those at the positions ks
FirstBuilder(ks) ==
    IF ks = {} THEN NoBuilder ELSE builders[CHOOSE k \in ks : \A j \in ks : k <= j]

\* the dictionary a resource is looked up in across all dictionaries: the
\* one the resource index names, else the first whose container holds it,
\* else the first whose directory holds it
InContainer(id, path) ==
    \E k \in 1..3 : HasContent(MddLookup(store, id,
                                         Replace(ScanSearchPaths(path)[k], "/", "\\")))
InDirectory(id, path) ==
    \E k \in 1..3 : TryFilesystemFallback(store, id, ScanSearchPaths(path)[k]) # <<>>
AcrossDictionaries(path) ==
    IF FindIndexed(resource_index, builders, NormalizedPaths(path)) # NoBuilder
    THEN FindIndexed(resource_index, builders, NormalizedPaths(path))
    ELSE IF \E k \in 1..Len(builders) : InContainer(builders[k], path)
    THEN FirstBuilder({k \in 1..Len(builders) : InContainer(builders[k], path)})
    ELSE FirstBuilder({k \in 1..Len(builders) : InDirectory(builders[k], path)})

\* the dictionary whose id is default, else the first one loaded
DefaultDictionary ==
    IF <<"default">> \in Range(builders) THEN <<"default">> ELSE builders[1]

\* the dispatch of the single segment, or of no segment
SingleSegmentDispatch(a, segs) ==
    IF segs = <<>> THEN a.handler = "dict_list"
    ELSE IF KnownExtension(segs[1])
    THEN /\ a.handler = "mdd_resource"
         /\ a.arg = segs[1]
         /\ a.dict = AcrossDictionaries(segs[1])
    ELSE /\ a.handler = "word_lookup"
         /\ a.arg = segs[1]
         /\ a.lookup # "none" => a.dict = DefaultDictionary

\* C14 as stated: every path of one segment is dispatched as a resource
\* lookup across all dictionaries when its extension is known and as a text
\* lookup in the default dictionary otherwise; the empty path gives the
\* dictionary catalog
C14_AnySingleSegment ==
    [][served' = served + 1 /\ Len(Segments(Accepted.path)) <= 1
          => SingleSegmentDispatch(Accepted, Segments(Accepted.path))]_vars

\* C14: every path of one segment other than /health, which is the health
\* check, is dispatched as a resource lookup across all dictionaries (index,
\* then containers, then directories) when its extension is known and as a
\* text lookup in the default dictionary otherwise; the empty path gives the
\* dictionary catalog
C14_SingleSegmentDispatch ==
    [][served' = served + 1 /\ Len(Segments(Accepted.path)) <= 1
                            /\ Accepted.path # HealthPath
          => SingleSegmentDispatch(Accepted, Segments(Accepted.path))]_vars

\* a resource of one segment was served from a dictionary that is not the
\* first one
C14_Witness ==
    /\ Len(Segments(response.path)) = 1
    /\ response.handler = "mdd_resource"
    /\ response.status = 200
    /\ Len(builders) > 1
    /\ response.dict # builders[1]

\* the loaded dictionaries configured with the route
RouteOwners(route) ==
    {dict_configs[k].id : k \in {j \in 1..Len(dict_configs) :
                                    /\ dict_configs[j].route = route
                                    /\ dict_configs[j].id \in Range(builders)}}

\* the dispatch of two segments or more
MultiSegmentDispatch(a, segs) ==
    IF RouteOwners(segs[1]) # {}
    THEN IF KnownExtension(segs[Len(segs)])
         THEN /\ a.handler = "mdd_resource"
              /\ a.arg = JoinWith(Tail(segs), "/")
              /\ a.dict \in RouteOwners(segs[1])
         ELSE /\ a.handler = "word_lookup"
              /\ a.arg = JoinWith(Tail(segs), "/")
              /\ a.lookup # "none" => a.dict \in RouteOwners(segs[1])
    ELSE IF KnownExtension(segs[Len(segs)])
         THEN /\ a.handler = "mdd_resource"
              /\ a.arg = JoinWith(segs, "/")
              /\ a.dict = AcrossDictionaries(JoinWith(segs, "/"))
         ELSE a.handler = "not_found"

\* C15 as stated: every path of several segments whose first segment is the
\* route of a loaded dictionary is served from that dictionary, as a resource
\* when the last segment has a known extension and as a headword lookup
\* otherwise; every other path of several segments is tried whole as a
\* resource when the last segment has a known extension and is not found
\* otherwise
C15_AnyMultiSegment ==
    [][served' = served + 1 /\ Len(Segments(Accepted.path)) > 1
          => MultiSegmentDispatch(Accepted, Segments(Accepted.path))]_vars

\* C15: the same for every path of several segments other than /api/dicts
\* and /api/dictionaries, which give the dictionary catalog
C15_MultiSegmentDispatch ==
    [][served' = served + 1 /\ Len(Segments(Accepted.path)) > 1
                            /\ Accepted.path \notin DictListPaths
          => MultiSegmentDispatch(Accepted, Segments(Accepted.path))]_vars

\* a headword was found in the dictionary of the route, which is not the
\* default dictionary
C15_Witness ==
    /\ Len(Segments(response.path)) > 1
    /\ response.handler = "word_lookup"
    /\ response.status = 200
    /\ response.route # <<>>
    /\ response.dict # DefaultDictionary

\* the dictionaries of the configuration that are registered: enabled, and
\* loaded from their path
Registered(c) == c.enabled /\ c.path_ok /\ c.opens

\* the dictionary whose id is default when one is registered, otherwise the
\* first registered dictionary of the configuration
ExpectedDefault ==
    IF \E k \in 1..Len(dict_configs) :
          dict_configs[k].id = <<"default">> /\ Registered(dict_configs[k])
    THEN <<"default">>
    ELSE dict_configs[CHOOSE k \in 1..Len(dict_configs) :
                          /\ Registered(dict_configs[k])
                          /\ \A j \in 1..(k - 1) : ~Registered(dict_configs[j])].id

C17_RoutesUnique ==
    spc = "serving" =>
        \A j, k \in 1..Len(dict_configs) :
            /\ j # k
            /\ dict_configs[j].id \in Range(builders)
            /\ dict_configs[k].id \in Range(builders)
            => dict_configs[j].route # dict_configs[k].route

\* the words the configuration rejects
Rejected(w) ==
    \/ w = <<>>
    \/ Len(w) > max_word_length
    \/ \E i \in 1..Len(w) : w[i] \in {"/", "\\"}
    \/ \E i \in 1..(Len(w) - 1) : w[i] = "." /\ w[i + 1] = "."

\* C18: a word is rejected exactly when it is empty, longer than the
\* configured max_word_length, or contains .., / or \; a rejected word does
\* not reach a dictionary lookup
C18_WordValidation ==
    response.handler = "word_lookup" =>
        /\ response.status = 500 <=> Rejected(response.arg)
        /\ Rejected(response.arg) => response.lookup = "none"

\* C19: a word lookup that fails in the dictionary gives a 5xx response, and
\* a headword that is absent gives 404
C19_FailureIsNotAbsence ==
    response.handler = "word_lookup" =>
        /\ response.lookup = "raise" => response.status \in 500..599
        /\ response.lookup = "absent" => response.status = 404

\* the container of the dictionary holds content for the path under one of
\* the key forms path, \path, \html\path
ContainerHolds(id, path) ==
    \E k \in 1..3 :
        HasContent(MddLookup(store, id,
                             Replace(ResourceSearchPaths(path)[k], "/", "\\")))

\* C20: the filesystem is only a fallback: when the container of the
\* dictionary holds content for the resource under one of the key forms, the
\* body is the content of the container; a file is returned only when no key
\* form has content, and 404 only when the file is missing too
C20_FilesystemOnlyFallback ==
    response.handler = "mdd_resource" /\ response.dict # NoBuilder =>
        /\ ContainerHolds(response.dict, response.arg)
             => response.status = 200 /\ response.body[1].src = "mdd"
        /\ response.status = 200 /\ response.body[1].src = "file"
             => ~ContainerHolds(response.dict, response.arg)
        /\ response.status = 404
             => /\ ~ContainerHolds(response.dict, response.arg)
                /\ TryFilesystemFallback(store, response.dict, response.arg) = <<>>

\* the dictionaries of the configuration that IndexBuilder fails to open
FailsToOpen(c) == c.enabled /\ c.path_ok /\ ~c.opens

\* C21: a dictionary that fails to open does not stop the others: every
\* enabled dictionary whose file exists and opens is loaded, can be asked by
\* its id and is listed as loaded; the one that failed is not loaded and is
\* listed with status error; the construction of the server fails exactly
\* when no dictionary was loaded
C21_FailureIsolated ==
    spc # "new" =>
        /\ \A k \in 1..Len(dict_configs) :
              /\ Registered(dict_configs[k])
                   => /\ dict_configs[k].id \in Range(builders)
                      /\ QueryBuilder(dict_configs, builders, dict_configs[k].id)
                            = dict_configs[k].id
              /\ FailsToOpen(dict_configs[k])
                   => /\ dict_configs[k].id \notin Range(builders)
                      /\ GetDictionaryList(dict_configs, builders)[k].status = "error"
        /\ spc = "failed" <=> \A k \in 1..Len(dict_configs) : ~Registered(dict_configs[k])
        /\ response.handler = "dict_list"
             => \A k \in 1..Len(dict_configs) :
                   /\ response.body[k].id = dict_configs[k].id
                   /\ response.body[k].status = "loaded" <=> Registered(dict_configs[k])

\* the server serves although the first dictionary of its configuration
\* failed to open, and the list of the dictionaries was asked for
C21_Witness ==
    /\ spc = "serving"
    /\ Len(dict_configs) > 1
    /\ FailsToOpen(dict_configs[1])
    /\ Registered(dict_configs[2])
    /\ response.handler = "dict_list"
    /\ response.body[1].status = "error"
    /\ response.body[2].status = "loaded"

\* the path leads out of the directory it starts from
LeavesDirectory(path) ==
    \E k \in 1..Len(Split(path, "/")) : Split(path, "/")[k] = <<".", ".">>

\* C28: the filesystem fallback never returns a file from outside the
\* directory of the dictionary file, whatever the request path, segments ..
\* included
C28_FallbackStaysInside ==
    response.status = 200 /\ response.body # <<>> /\ response.handler = "mdd_resource"
        => \A k \in 1..Len(response.body) :
              response.body[k].src = "file" => ~LeavesDirectory(response.body[k].name)

\* the request-handler threads that are running: started for a request and
\* not yet done with it
Running == {t \in DOMAIN threads : threads[t].pc # "idle"}

\* C23: the number of request-handler threads running at the same time
\* never exceeds max_threads
C23_PoolBounded == Cardinality(Running) <= max_threads

\* the ids of the dictionaries the configuration registers with enabled = false
Disabled == {dict_configs[k].id : k \in {j \in 1..Len(dict_configs) : ~dict_configs[j].enabled}}

\* the dictionaries a response takes its content from
AnsweredFrom ==
    IF response.handler = "dict_list" \/ response.status # 200 THEN {}
    ELSE {response.dict} \cup {response.body[k].dict : k \in 1..Len(response.body)}

\* C30: a dictionary registered with enabled = false is never loaded and is
\* unreachable in every state after startup: it has no builder, no route
\* (the empty route included) and no id given to query_dictionary resolves
\* to it, the resource index and the resource search of a request never
\* name it, and no response takes content from it
C30_DisabledUnreachable ==
    \A id \in Disabled :
        /\ id \notin Range(builders)
        /\ \A route \in Routes \cup Ids :
              /\ GetDictionaryByRoute(dict_configs, builders, route) # id
              /\ QueryBuilder(dict_configs, builders, route) # id
        /\ GetDictionaryById(builders, id) = NoBuilder
        /\ \A q \in DOMAIN resource_index : resource_index[q] # id
        /\ \A t \in DOMAIN threads : threads[t].found # id
        /\ id \notin AnsweredFrom

\* the dictionary with id default is disabled and has the empty route, and a
\* word asked through the empty route was answered by another dictionary
C30_Witness ==
    /\ spc = "serving"
    /\ \E k \in 1..Len(dict_configs) :
          /\ dict_configs[k].id = <<"default">>
          /\ dict_configs[k].route = <<>>
          /\ ~dict_configs[k].enabled
    /\ response.handler = "word_lookup"
    /\ response.route = <<>>
    /\ response.status = 200
    /\ response.dict # <<"default">>

----------------------------------------------------------------------------
(* The key enumeration machine: get_mdx_keys and get_mdd_keys asked once   *)
(* over the MDX_INDEX table of a sidecar                                    *)

MaxRows == 2         \* rows of MDX_INDEX
MaxPattern == 2      \* characters of the query

\* the case folding of the LIKE operator of SQLite: ASCII letters only
SqlFold(c) == CASE c = "A" -> "a" [] c = "B" -> "b" [] OTHER -> c

\* text LIKE pattern in SQLite, no ESCAPE clause: % stands for any run of
\* characters, _ for any one character, the others for themselves, in either
\* case
RECURSIVE Like(_, _)
Like(text, pattern) ==
    IF pattern = <<>> THEN text = <<>>
    ELSE IF pattern[1] = "%"
    THEN \E k \in 0..Len(text) : Like(SubSeq(text, k + 1, Len(text)), Tail(pattern))
    ELSE IF text = <<>> THEN FALSE
    ELSE IF pattern[1] = "_" THEN Like(Tail(text), Tail(pattern))
    ELSE /\ SqlFold(pattern[1]) = SqlFold(text[1])
         /\ Like(Tail(text), Tail(pattern))

\* SELECT key_text FROM MDX_INDEX WHERE key_text LIKE ?
SelectLike(index, pattern) == SelectSeq(index, LAMBDA k : Like(k, pattern))

\* the body of get_mdx_keys and of get_mdd_keys inside the try statement
GetKeys(index, q) ==
    IF q # <<>>
    THEN IF \E i \in 1..Len(q) : q[i] = "*"
         THEN SelectLike(index, Replace(q, "*", "%"))
         ELSE SelectLike(index, q \o <<"%">>)
    ELSE index

\* the keys of the sidecars and the characters of the queries
KeyTexts == {<<"a">>, <<"A">>, <<"a", "b">>, <<"_">>, <<"a", "_">>, <<"%">>}
QueryChars == {"a", "A", "_", "%", "*"}

RECURSIVE Indexes(_)
Indexes(n) ==
    IF n = 0 THEN {<<>>}
    ELSE Indexes(n - 1)
         \cup {Append(i, k) : i \in {j \in Indexes(n - 1) : Len(j) = n - 1},
                              k \in KeyTexts}

Queries == UNION {[1..n -> QueryChars] : n \in 0..MaxPattern}

KeysInit ==
    /\ GenOff
    /\ BuildOff
    /\ LinkOff
    /\ TextOff
    /\ ServeOff
    /\ kpc = "idle"
    /\ index_keys \in Indexes(MaxRows)
    /\ has_mdd \in BOOLEAN
    /\ db_ok \in BOOLEAN
    /\ query \in Queries
    /\ keys = <<>>

\* IndexBuilder.get_mdx_keys
GetMdxKeys ==
    /\ kpc = "idle"
    /\ kpc' = "mdx_keys"
    /\ keys' = IF db_ok THEN GetKeys(index_keys, query) ELSE <<>>
    /\ UNCHANGED <<index_keys, has_mdd, db_ok, query>>
    /\ UNCHANGED notkeys

\* IndexBuilder.get_mdd_keys
GetMddKeys ==
    /\ kpc = "idle"
    /\ kpc' = "mdd_keys"
    /\ keys' = IF ~has_mdd THEN <<>>
               ELSE IF db_ok THEN GetKeys(index_keys, query)
               ELSE <<>>
    /\ UNCHANGED <<index_keys, has_mdd, db_ok, query>>
    /\ UNCHANGED notkeys

KeysNext == GetMdxKeys \/ GetMddKeys

SpecKeys == KeysInit /\ [][KeysNext]_vars

----------------------------------------------------------------------------
(* Properties of the key enumeration *)

\* the rows of the index whose key starts with the prefix, character for
\* character
WithPrefix(index, prefix) == SelectSeq(index, LAMBDA k : StartsWith(k, prefix))

\* the enumeration read the sidecar
Enumerated ==
    /\ db_ok
    /\ kpc = "mdx_keys" \/ (kpc = "mdd_keys" /\ has_mdd)

\* C22: the empty pattern returns every key; a pattern without * returns
\* exactly the keys that start with the pattern; a pattern foo* returns
\* exactly the keys with the prefix foo; for every text of the pattern, the
\* characters _ and % and letters of either case included
C22_PrefixEnumeration ==
    Enumerated =>
        /\ query = <<>> => keys = index_keys
        /\ query # <<>> /\ (\A i \in 1..Len(query) : query[i] # "*")
             => keys = WithPrefix(index_keys, query)
        /\ query # <<>> /\ query[Len(query)] = "*"
             /\ (\A i \in 1..(Len(query) - 1) : query[i] # "*")
             => keys = WithPrefix(index_keys, SubSeq(query, 1, Len(query) - 1))

====
